---- MODULE Spec2Model ----
(***************************************************************************)
(* GraphQLCache (src/nepa-dapp/src/defi/yield-monitor.ts, lines 402-866):  *)
(* key derivation, the in-memory store with its three eviction strategies, *)
(* lazy expiry, the optional Redis tier and the statistics.                *)
(***************************************************************************)
EXTENDS Integers, Sequences, FiniteSets, TLC

VARIABLES
    probe,        \* two logical requests handed to generateCacheKey (key checks)
    derived,      \* the keys generateCacheKey returned for them, <<>> before the call
    config,       \* CacheConfig: strategy, maxSize, ttl, redis (configured or not)
    cache,        \* Map<string, CacheEntry> in insertion order
    accessOrder,  \* string[] used by the lru strategy
    stats,        \* CacheStats
    memoryUsage,  \* private memoryUsage
    redisStore,   \* the keys held by the Redis server
    redisStatus,  \* "ready" or "end" (after disconnect)
    remote,       \* whether the Redis server answers the commands it is sent
    stores,       \* the data stores of the resolvers: users, bills, payments, ...
    subscriptions,\* the async iterators handed out by the subscription resolvers
    reply,        \* what the last call of a resolver or of publishEvent returned or threw
    automatedStrategy, \* AutomatedStrategy, its RiskManager and YieldMonitor, the timers
    pending,      \* calls suspended at an await, in the order they were issued
    now,          \* Date.now(), in milliseconds
    ticks,        \* how often the clock advanced
    calls,        \* how many public calls were issued
    budget,       \* the bounds of a run (calls, suspended calls, clock steps) and what it records
    log,          \* the caller keys given to set so far, and whether only set was called
    prev,         \* the call that returned before the last one
    ret           \* the call that returned last

vars == <<probe, derived, config, cache, accessOrder, stats, memoryUsage,
          redisStore, redisStatus, remote, stores, subscriptions, reply,
          automatedStrategy, pending, now, ticks, calls, budget, log, prev, ret>>

resolverVars == <<stores, subscriptions, reply>>

cacheVars == <<config, cache, accessOrder, stats, memoryUsage, redisStore,
               redisStatus, remote, pending, now, ticks, calls, budget, log, prev, ret>>

----------------------------------------------------------------------------
(* JSON values: undefined, numbers, strings and objects.  An object is the *)
(* sequence of its properties in insertion order.                          *)

Undef == [t |-> "undef", n |-> 0, s |-> "", props |-> <<>>]
Num(n) == [t |-> "num", n |-> n, s |-> "", props |-> <<>>]
Str(s) == [t |-> "str", n |-> 0, s |-> s, props |-> <<>>]
Obj(props) == [t |-> "obj", n |-> 0, s |-> "", props |-> props]

\* JavaScript truthiness, as used by `x || fallback`.
Truthy(v) ==
    CASE v.t = "undef" -> FALSE
      [] v.t = "num" -> v.n # 0
      [] v.t = "str" -> v.s # ""
      [] OTHER -> TRUE

OrElse(v, fallback) == IF Truthy(v) THEN v ELSE fallback

HasProp(o, name) == \E i \in 1..Len(o.props) : o.props[i].name = name

PropOf(o, name) ==
    o.props[CHOOSE i \in 1..Len(o.props) : o.props[i].name = name].val

Quote(s) == "\"" \o s \o "\""

RECURSIVE JoinComma(_)
JoinComma(parts) ==
    IF parts = <<>> THEN ""
    ELSE IF Len(parts) = 1 THEN parts[1]
    ELSE parts[1] \o "," \o JoinComma(Tail(parts))

\* JSON.stringify(value, replacer) with an array replacer: at every nesting
\* level only the listed property names are written, in the order of the list.
RECURSIVE JSONStringify(_, _)
JSONStringify(v, propertyList) ==
    CASE v.t = "num" -> ToString(v.n)
      [] v.t = "str" -> Quote(v.s)
      [] v.t = "obj" ->
            LET present == SelectSeq(propertyList,
                    LAMBDA p : HasProp(v, p) /\ PropOf(v, p).t # "undef")
                part(i) == Quote(present[i]) \o ":"
                               \o JSONStringify(PropOf(v, present[i]), propertyList)
            IN "{" \o JoinComma([i \in 1..Len(present) |-> part(i)]) \o "}"
      [] OTHER -> "null"

\* JSON.stringify(value) without a replacer: own properties in insertion order.
RECURSIVE JSONStringifyPlain(_)
JSONStringifyPlain(v) ==
    CASE v.t = "num" -> ToString(v.n)
      [] v.t = "str" -> Quote(v.s)
      [] v.t = "obj" ->
            LET present == SelectSeq(v.props, LAMBDA p : p.val.t # "undef")
                part(i) == Quote(present[i].name) \o ":"
                               \o JSONStringifyPlain(present[i].val)
            IN "{" \o JoinComma([i \in 1..Len(present) |-> part(i)]) \o "}"
      [] OTHER -> "null"

\* Object.keys(keyData).sort() for keyData = {operation, variables, field, args}.
SortedKeyDataKeys == <<"args", "field", "operation", "variables">>

\* createHash('sha256').update(s).digest('hex'), taken as injective.
Sha256Hex(s) == "sha256<" \o s \o ">"

KeyData(operationName, variables, fieldName, args) ==
    Obj(<< [name |-> "operation", val |-> OrElse(operationName, Str("anonymous"))],
           [name |-> "variables", val |-> OrElse(variables, Obj(<<>>))],
           [name |-> "field", val |-> fieldName],
           [name |-> "args", val |-> OrElse(args, Obj(<<>>))] >>)

KeyStringUnsorted(keyData) == JSONStringifyPlain(keyData)

KeyString(keyData) == JSONStringify(keyData, SortedKeyDataKeys)

generateCacheKey(operationName, variables, fieldName, args) ==
    "gql:" \o Sha256Hex(KeyString(KeyData(operationName, variables, fieldName, args)))

\* get and set derive the key the same way: the caller's key is not an input.
CacheKeyOf(r) ==
    generateCacheKey(r.operationName, r.variables,
                     OrElse(r.fieldName, Str("")), OrElse(r.args, Obj(<<>>)))

----------------------------------------------------------------------------
(* Inputs of the key checks.                                               *)

MaxPropVal == 2

PropVals == {Num(n) : n \in 1..MaxPropVal}

\* Every object over `names` with values in `vals`, in every insertion order.
MapsOver(names, vals) ==
    LET pairs == {[name |-> nm, val |-> v] : nm \in names, v \in vals}
        seqs == UNION {[1..k -> pairs] : k \in 0..Cardinality(names)}
    IN {s \in seqs : \A i, j \in 1..Len(s) : i # j => s[i].name # s[j].name}

FlatMaps == MapsOver({"a", "field"}, PropVals)

NestedMaps == MapsOver({"args"}, {Obj(m) : m \in MapsOver({"a", "field"}, {Num(1)})})

ProbeOperationNames == {Undef, Str("Q"), Str("anonymous")}
ProbeFieldNames == {Str(""), Str("f")}
ProbeVariables == {Undef} \cup {Obj(m) : m \in FlatMaps \cup NestedMaps}
ProbeArgs == {Obj(m) : m \in {s \in MapsOver({"a", "field"}, {Num(1)}) : Len(s) # 1}}

ProbeRequests ==
    [operationName : ProbeOperationNames, variables : ProbeVariables,
     fieldName : ProbeFieldNames, args : ProbeArgs]

\* Two JSON values are equal as maps: same properties, whatever the order.
RECURSIVE MapEq(_, _)
MapEq(x, y) ==
    IF x.t = "obj" /\ y.t = "obj"
    THEN /\ Len(x.props) = Len(y.props)
         /\ \A i \in 1..Len(x.props) :
                /\ HasProp(y, x.props[i].name)
                /\ MapEq(x.props[i].val, PropOf(y, x.props[i].name))
    ELSE x = y

----------------------------------------------------------------------------
(* The in-memory tier.                                                     *)

MsPerSecond == 1000

NoKey == ""

Null == 0

NoEntry == [key |-> NoKey, value |-> Null, timestamp |-> 0, ttl |-> 0, hits |-> 0,
            size |-> 0, born |-> 0, used |-> 0]

ZeroStats == [hits |-> 0, misses |-> 0, hitRate |-> [num |-> 0, den |-> 1],
              size |-> 0, memoryUsage |-> 0, evictions |-> 0]

\* Array.prototype.indexOf, 1-based; 0 stands for -1.
IndexOf(seq, x) ==
    IF \E i \in 1..Len(seq) : seq[i] = x
    THEN CHOOSE i \in 1..Len(seq) : seq[i] = x /\ \A j \in 1..(i - 1) : seq[j] # x
    ELSE 0

CacheIndex(c, key) == IndexOf([i \in 1..Len(c) |-> c[i].key], key)

RemoveAt(seq, i) == SubSeq(seq, 1, i - 1) \o SubSeq(seq, i + 1, Len(seq))

Splice(seq, x) == IF IndexOf(seq, x) > 0 THEN RemoveAt(seq, IndexOf(seq, x)) ELSE seq

\* Mutant of MapSet: an overwrite deletes the key and inserts it again.
MapSetReinsert(c, entry) ==
    IF IndexOf([i \in 1..Len(c) |-> c[i].key], entry.key) > 0
    THEN Append(SubSeq(c, 1, IndexOf([i \in 1..Len(c) |-> c[i].key], entry.key) - 1)
                    \o SubSeq(c, IndexOf([i \in 1..Len(c) |-> c[i].key], entry.key) + 1,
                              Len(c)),
                entry)
    ELSE Append(c, entry)

\* Map.prototype.set: a new key goes to the end, an existing key keeps its place.
MapSet(c, entry) ==
    IF CacheIndex(c, entry.key) > 0
    THEN [c EXCEPT ![CacheIndex(c, entry.key)] = entry]
    ELSE Append(c, entry)

isExpired(entry, t) == t - entry.timestamp > entry.ttl * MsPerSecond

updateAccessOrder(ao, key, strategy) ==
    IF strategy = "lru" THEN Append(Splice(ao, key), key) ELSE ao

\* A value JSON.stringify throws on (a circular structure, a BigInt).
Circular == -1

\* Mutant of calculateSizeThrows: every value is taken to serialize.
calculateSizeNeverThrows(value) == FALSE

\* calculateSize raises a TypeError out of JSON.stringify.
calculateSizeThrows(value) == value = Circular

\* JSON.stringify(value).length * 2 for a numeric value.
calculateSize(value) == Len(ToString(value)) * 2

updateStats(m) == [m EXCEPT !.st.size = Len(m.cache), !.st.memoryUsage = m.mu]

\* Mutant of updateHitRate: the rate is left as it was.
updateHitRateStale(st) == st

updateHitRate(st) ==
    [st EXCEPT !.hitRate = IF st.hits + st.misses > 0
                           THEN [num |-> st.hits, den |-> st.hits + st.misses]
                           ELSE [num |-> 0, den |-> 1]]

\* A live Map iterator held by a suspended invalidateByPattern: `it` entries
\* are behind it.  Removing one of them moves the iterator back by one.
ShiftIters(pend, j) ==
    [i \in 1..Len(pend) |->
        IF pend[i].op = "invalidate" /\ j <= pend[i].it
        THEN [pend[i] EXCEPT !.it = @ - 1] ELSE pend[i]]

ResetIters(pend) == [i \in 1..Len(pend) |-> [pend[i] EXCEPT !.it = 0]]

\* this.cache.delete(key)
cacheDelete(m, key) ==
    LET j == CacheIndex(m.cache, key)
    IN IF j = 0 THEN m
       ELSE [m EXCEPT !.cache = RemoveAt(@, j), !.pend = ShiftIters(@, j)]

\* this.cache.clear()
cacheClear(m) == [m EXCEPT !.cache = <<>>, !.pend = ResetIters(@)]

\* A call suspended at an await; `at` is the clock reading when it was issued.
Item(kind, op, cmd, n, req, ckey, entry, solo) ==
    [kind |-> kind, op |-> op, cmd |-> cmd, n |-> n, req |-> req, ckey |-> ckey,
     entry |-> entry, pat |-> "", count |-> 0, it |-> 0, keys |-> {}, solo |-> solo,
     at |-> now, loaded |-> {}, removed |-> {}]

\* Requests are named; "" names none.
NoReq == ""

\* delete(key) up to its first await: the memory tier and accessOrder.
deleteSync(m, key) ==
    LET j == CacheIndex(m.cache, key)
    IN IF j = 0 THEN m
       ELSE [cacheDelete(m, key) EXCEPT !.mu = @ - m.cache[j].size,
                                        !.ao = Splice(@, key)]

\* delete(key) called without being awaited (from evictIfNeeded): with Redis
\* the del command is left in flight and updateStats runs when it settles.
deleteDetached(m, key, redis) ==
    IF CacheIndex(m.cache, key) = 0 THEN m
    ELSE IF redis
    THEN [deleteSync(m, key) EXCEPT
            !.pend = Append(@, Item("redis", "evict", "del", 0, NoReq, key, NoEntry, FALSE))]
    ELSE updateStats(deleteSync(m, key))

\* Mutant of lfuVictim: `<=` in the scan, so the last entry with the minimum wins.
lfuVictimLast(c) ==
    LET i == CHOOSE i \in 1..Len(c) :
                 /\ \A j \in 1..Len(c) : c[i].hits <= c[j].hits
                 /\ \A j \in (i + 1)..Len(c) : c[j].hits > c[i].hits
    IN c[i].key

\* The lfu scan: the first entry, in Map order, whose hits are below all before it.
lfuVictim(c) ==
    LET i == CHOOSE i \in 1..Len(c) :
                 /\ \A j \in 1..Len(c) : c[i].hits <= c[j].hits
                 /\ \A j \in 1..(i - 1) : c[j].hits > c[i].hits
    IN c[i].key

keyToEvict(m, cfg) ==
    IF Len(m.cache) <= cfg.maxSize THEN NoKey
    ELSE CASE cfg.strategy = "lru" -> IF m.ao = <<>> THEN NoKey ELSE m.ao[1]
           [] cfg.strategy = "fifo" -> m.cache[1].key
           [] OTHER -> lfuVictim(m.cache)

evictIfNeeded(m, cfg) ==
    LET k == keyToEvict(m, cfg)
    IN IF k = NoKey THEN m
       ELSE [deleteDetached(m, k, cfg.redis) EXCEPT !.st.evictions = @ + 1]

\* set(...) from `this.cache.set` on: the memory tier.
setInsert(m, entry, cfg) ==
    LET old == CacheIndex(m.cache, entry.key)
        e == IF old > 0 THEN [entry EXCEPT !.born = m.cache[old].born] ELSE entry
    IN [m EXCEPT !.cache = MapSet(@, e),
                 !.ao = updateAccessOrder(@, entry.key, cfg.strategy),
                 !.mu = @ + entry.size]

\* Mutant of setMemory: expired entries are swept before the capacity check.
setMemorySweeping(m, entry, cfg) ==
    LET inserted == setInsert(m, entry, cfg)
        live == SelectSeq(inserted.cache, LAMBDA e : e.key = entry.key \/ ~isExpired(e, now))
        swept == [inserted EXCEPT
                     !.cache = live,
                     !.ao = SelectSeq(@, LAMBDA k : \E i \in 1..Len(live) : live[i].key = k)]
    IN updateStats(evictIfNeeded(swept, cfg))

\* Mutant of setMemory: the memory tier is left as it was.
setMemoryDropped(m, entry, cfg) == updateStats(m)

setMemory(m, entry, cfg) == updateStats(evictIfNeeded(setInsert(m, entry, cfg), cfg))

\* Mutant of getMemory: an expired entry is dropped without counting a miss.
getMemoryExpiredUncounted(m, ckey, t, n, cfg) ==
    LET j == CacheIndex(m.cache, ckey)
    IN IF j = 0
       THEN [m EXCEPT !.st = updateHitRate([@ EXCEPT !.misses = @ + 1])]
       ELSE IF isExpired(m.cache[j], t)
       THEN [cacheDelete(m, ckey) EXCEPT !.ao = Splice(@, ckey)]
       ELSE [m EXCEPT !.cache[j].hits = @ + 1,
                      !.cache[j].used = n,
                      !.ao = updateAccessOrder(@, ckey, cfg.strategy),
                      !.st = updateHitRate([@ EXCEPT !.hits = @ + 1])]

\* Mutant of getMemory: an expired entry is a miss and stays where it is.
getMemoryExpiredKept(m, ckey, t, n, cfg) ==
    LET j == CacheIndex(m.cache, ckey)
    IN IF j = 0 \/ isExpired(m.cache[j], t)
       THEN [m EXCEPT !.st = updateHitRate([@ EXCEPT !.misses = @ + 1])]
       ELSE [m EXCEPT !.cache[j].hits = @ + 1,
                      !.cache[j].used = n,
                      !.ao = updateAccessOrder(@, ckey, cfg.strategy),
                      !.st = updateHitRate([@ EXCEPT !.hits = @ + 1])]

\* get(...) from "Fallback to memory cache" on; n is the ordinal of the call.
getMemory(m, ckey, t, n, cfg) ==
    LET j == CacheIndex(m.cache, ckey)
    IN IF j = 0
       THEN [m EXCEPT !.st = updateHitRate([@ EXCEPT !.misses = @ + 1])]
       ELSE IF isExpired(m.cache[j], t)
       THEN [cacheDelete(m, ckey) EXCEPT
                !.ao = Splice(@, ckey),
                !.st = updateHitRate([@ EXCEPT !.misses = @ + 1])]
       ELSE [m EXCEPT !.cache[j].hits = @ + 1,
                      !.cache[j].used = n,
                      !.ao = updateAccessOrder(@, ckey, cfg.strategy),
                      !.st = updateHitRate([@ EXCEPT !.hits = @ + 1])]

\* A remote hit that goes on to the in-memory entry of the key.
getRedisTouching(m, ckey) ==
    LET j == CacheIndex(m.cache, ckey)
    IN IF j = 0
       THEN [m EXCEPT !.st = updateHitRate([@ EXCEPT !.hits = @ + 1])]
       ELSE [m EXCEPT !.cache[j].hits = @ + 1,
                      !.st = updateHitRate([@ EXCEPT !.hits = @ + 1])]

\* get(...), the branch "if (cached)" of the Redis block: the reply for ckey
\* is parsed, the hit is counted and the value returned.
getRedis(m, ckey) == [m EXCEPT !.st = updateHitRate([@ EXCEPT !.hits = @ + 1])]

getStats == [stats EXCEPT !.size = Len(cache), !.memoryUsage = memoryUsage]

getMemoryHit(m, ckey, t) ==
    CacheIndex(m.cache, ckey) > 0 /\ ~isExpired(m.cache[CacheIndex(m.cache, ckey)], t)

getMemoryValue(m, ckey, t) ==
    IF getMemoryHit(m, ckey, t) THEN m.cache[CacheIndex(m.cache, ckey)].value ELSE Null

----------------------------------------------------------------------------
(* The Redis tier, as the cache uses it.                                   *)

RedisLive(store, key, t) == \E e \in store : e.key = key /\ t <= e.exp

RedisGet(store, key, t) ==
    IF RedisLive(store, key, t)
    THEN (CHOOSE e \in store : e.key = key).value ELSE Null

RedisSetex(store, key, ttl, value, t) ==
    {e \in store : e.key # key}
        \cup {[key |-> key, value |-> value, exp |-> t + ttl * MsPerSecond]}

RedisDel(store, keys) == {e \in store : e.key \notin keys}

\* String.prototype.includes
Includes(s, p) ==
    \E i \in 1..(Len(s) - Len(p) + 1) : SubSeq(s, i, i + Len(p) - 1) = p

RedisKeys(store, pat, t) == {e.key : e \in {x \in store : Includes(x.key, pat) /\ t <= x.exp}}

----------------------------------------------------------------------------
(* Bounds and inputs of the cache specifications.                          *)

MaxCalls == 4
MaxRedisCalls == 3
MaxLfuCalls == 7
MaxTtlCalls == 3
MaxPatternCalls == 5
MaxDeleteCalls == 3
MaxSerialCalls == 3
MaxWarmupCalls == 2
MaxHealthCalls == 5
MaxLazyCalls == 3
MaxZeroCalls == 3
MaxCachedCalls == 3
MaxStrategyCalls == 4
MaxBoundedCalls == 4
MaxDeliveryCalls == 2
MaxDeliveryTicks == 1
MaxAccessCalls == 2
MaxInFlight == 2
MaxTicks == 2

Values == {7, 42}

TtlArgs == {0, 2}

TickSteps == {1, MsPerSecond}

Req(key, op) == [key |-> key, operationName |-> op, variables |-> Undef,
                 fieldName |-> Undef, args |-> Undef]

\* The requests of the cache specifications, by name: a..d differ in their
\* operation name, k1..k3 and q1..q3 in nothing but the caller's key.
AllRequests == {"a", "b", "c", "d", "k1", "k2", "k3", "q1", "q2", "q3"}

RequestOf ==
    [r \in AllRequests |->
        CASE r = "a" -> Req("a", Str("A"))
          [] r = "b" -> Req("b", Str("B"))
          [] r = "c" -> Req("c", Str("C"))
          [] r = "d" -> Req("d", Str("D"))
          [] r = "q1" -> Req("user:1:a", Str("Q"))
          [] r = "q2" -> Req("user:2:a", Str("Q"))
          [] r = "q3" -> Req("user:1:b", Str("Q"))
          [] r = "k1" -> Req("key-0", Undef)
          [] r = "k2" -> Req("key-1", Undef)
          [] OTHER -> Req("key-2", Undef)]

RequestKey == [r \in AllRequests |-> CacheKeyOf(RequestOf[r])]

CallerKey(r) == RequestOf[r].key

Patterns == {"gql:", "user:1"}

----------------------------------------------------------------------------
(* State changes shared by the actions.                                    *)

\* Ordinals are recorded only in the specifications whose properties read them.
Stamp(ghost, n) == IF ghost \in budget.record THEN n ELSE 0

Mem == [cache |-> cache, ao |-> accessOrder, st |-> stats, mu |-> memoryUsage,
        pend |-> pending]

Apply(m) ==
    /\ cache' = m.cache
    /\ accessOrder' = m.ao
    /\ stats' = m.st
    /\ memoryUsage' = m.mu
    /\ pending' = m.pend

\* A public call is in flight (a detached delete of an eviction is not one).
Busy(pend) == \E i \in 1..Len(pend) : pend[i].op # "evict"

Unsolo(pend) == [i \in 1..Len(pend) |-> [pend[i] EXCEPT !.solo = FALSE]]

\* The memory state as a newly issued call finds it.
MemAtCall == [Mem EXCEPT !.pend = Unsolo(@)]

Suspend(m, item) == [m EXCEPT !.pend = Append(@, item)]

NoResult == [n |-> 0, op |-> "none", req |-> NoReq, ckey |-> NoKey, val |-> Null,
             ttl |-> 0, ok |-> FALSE, src |-> "", victim |-> NoKey, evicted |-> FALSE,
             solo |-> FALSE, at |-> 0, t |-> 0, count |-> 0, raised |-> FALSE,
             pat |-> "", status |-> "", loaded |-> {}, victimExpired |-> FALSE,
             removed |-> {}]

Result(op, n, req, ckey, solo) ==
    [NoResult EXCEPT !.op = op, !.n = n, !.req = req, !.ckey = ckey, !.solo = solo,
                     !.t = now]

\* prev is recorded only in the specifications whose properties read it.
Return(res) == prev' = (IF "prev" \in budget.record THEN ret ELSE prev) /\ ret' = res

CanCall == calls < budget.calls /\ Len(pending) < budget.inflight

\* Every call other than set ends a run of sets.
Called(op) ==
    /\ calls' = calls + 1
    /\ log' = IF op = "set" THEN log ELSE [log EXCEPT !.onlySets = FALSE]
    /\ UNCHANGED <<probe, derived, config, remote, resolverVars, automatedStrategy, now,
                   ticks, budget>>

Settled ==
    UNCHANGED <<probe, derived, config, remote, resolverVars, automatedStrategy, now,
                ticks, calls, budget, log>>

\* Microtask continuations run before any Redis reply is delivered; Redis
\* answers its commands in the order they were sent.
\* Loaders of a warmup settle on their own; 0 if nothing is to settle.
FirstOfKind(pend, kind) ==
    CHOOSE i \in 1..Len(pend) :
        pend[i].kind = kind /\ \A j \in 1..(i - 1) : pend[j].kind # kind

Yielding(pend) == \E i \in 1..Len(pend) : pend[i].kind = "yield"

NextToSettle(pend) ==
    IF Yielding(pend) THEN FirstOfKind(pend, "yield")
    ELSE IF \E i \in 1..Len(pend) : pend[i].kind = "redis" THEN FirstOfKind(pend, "redis")
    ELSE 0

Settling(cmd) == NextToSettle(pending) > 0 /\ pending[NextToSettle(pending)].cmd = cmd

SettlingItem == pending[NextToSettle(pending)]

MemRest == [Mem EXCEPT !.pend = RemoveAt(@, NextToSettle(pending))]

\* A Redis command is settled by the reply of the server or by an error of the
\* connection: no timer is set on it.  It succeeds only on an open connection;
\* it may fail at any time.
RedisOutcome(ok) ==
    /\ remote = "answers"
    /\ ok => redisStatus # "end"
    /\ redisStatus' = IF ok THEN "ready" ELSE redisStatus

----------------------------------------------------------------------------
(* get                                                                     *)

GetFromMemory(m, item) ==
    /\ Apply(getMemory(m, item.ckey, now, Stamp("used", item.n), config))
    /\ Return([Result("get", item.n, item.req, item.ckey, item.solo) EXCEPT
                  !.ok = getMemoryHit(m, item.ckey, now),
                  !.val = getMemoryValue(m, item.ckey, now),
                  !.src = "memory",
                  !.at = item.at])

CallGet(r) ==
    /\ CanCall
    /\ LET item == Item("redis", "get", "get", calls + 1, r, RequestKey[r], NoEntry,
                        ~Busy(pending))
       IN IF config.redis
          THEN Apply(Suspend(MemAtCall, item)) /\ UNCHANGED <<prev, ret>>
          ELSE GetFromMemory(MemAtCall, item)
    /\ UNCHANGED <<redisStore, redisStatus>>
    /\ Called("get")

SettleGet(ok) ==
    /\ Settling("get")
    /\ RedisOutcome(ok)
    /\ LET item == SettlingItem
       IN IF ok /\ RedisLive(redisStore, item.ckey, now)
          THEN /\ Apply(getRedis(MemRest, item.ckey))
               /\ Return([Result("get", item.n, item.req, item.ckey, item.solo) EXCEPT
                             !.ok = TRUE,
                             !.val = RedisGet(redisStore, item.ckey, now),
                             !.src = "redis",
                             !.at = item.at])
          ELSE GetFromMemory(MemRest, item)
    /\ UNCHANGED redisStore
    /\ Settled

----------------------------------------------------------------------------
(* set                                                                     *)

SetInMemory(m, item) ==
    LET inserted == setInsert(m, item.entry, config)
        victim == keyToEvict(inserted, config)
    IN /\ Apply(setMemory(m, item.entry, config))
       /\ log' = [log EXCEPT !.setKeys = @ \cup {CallerKey(item.req)}]
       /\ Return([Result("set", item.n, item.req, item.ckey, item.solo) EXCEPT
                     !.ok = TRUE,
                     !.val = item.entry.value,
                     !.ttl = item.entry.ttl,
                     !.t = item.entry.timestamp,
                     !.victim = victim,
                     !.evicted = CacheIndex(inserted.cache, victim) > 0,
                     !.victimExpired =
                         /\ CacheIndex(inserted.cache, victim) > 0
                         /\ isExpired(inserted.cache[CacheIndex(inserted.cache, victim)],
                                      now)])

\* The CacheEntry set builds before its first await.
NewEntry(r, value, ttl, n) ==
    [key |-> RequestKey[r], value |-> value, timestamp |-> now,
     ttl |-> IF ttl # 0 THEN ttl ELSE config.ttl, hits |-> 0,
     size |-> calculateSize(value), born |-> Stamp("born", n),
     used |-> Stamp("used", n)]

CallSet(r, value, ttl) ==
    /\ CanCall
    /\ LET n == calls + 1
           entry == NewEntry(r, value, ttl, n)
           item == Item("redis", "set", "setex", n, r, RequestKey[r], entry,
                        ~Busy(pending))
       IN IF calculateSizeThrows(value)
          THEN /\ Apply(MemAtCall)
               /\ Return([Result("set", n, r, RequestKey[r], ~Busy(pending)) EXCEPT
                             !.val = value, !.raised = TRUE])
               /\ UNCHANGED log
          ELSE IF config.redis
          THEN Apply(Suspend(MemAtCall, item)) /\ UNCHANGED <<prev, ret, log>>
          ELSE SetInMemory(MemAtCall, item)
    /\ calls' = calls + 1
    /\ UNCHANGED <<redisStore, redisStatus, remote, resolverVars, automatedStrategy,
                   probe, derived, config, now, ticks, budget>>

SettleSetex(ok) ==
    /\ Settling("setex")
    /\ RedisOutcome(ok)
    /\ LET item == SettlingItem
       IN /\ redisStore' = IF ok
                           THEN RedisSetex(redisStore, item.ckey, item.entry.ttl,
                                           item.entry.value, now)
                           ELSE redisStore
          /\ SetInMemory(MemRest, item)
    /\ UNCHANGED <<probe, derived, config, remote, resolverVars, automatedStrategy, now,
                   ticks, calls, budget>>

----------------------------------------------------------------------------
(* delete                                                                  *)

CallDelete(key) ==
    /\ CanCall
    /\ LET found == CacheIndex(cache, key) > 0
           solo == ~Busy(pending)
           res == [Result("delete", calls + 1, NoReq, key, solo) EXCEPT !.ok = found]
           item == Item("redis", "delete", "del", calls + 1, NoReq, key, NoEntry, solo)
       IN IF found /\ config.redis
          THEN /\ Apply(Suspend(deleteSync(MemAtCall, key), item))
               /\ UNCHANGED <<prev, ret>>
          ELSE /\ Apply(IF found THEN updateStats(deleteSync(MemAtCall, key))
                        ELSE MemAtCall)
               /\ Return(res)
    /\ UNCHANGED <<redisStore, redisStatus>>
    /\ Called("delete")

\* The del of a public delete or of a detached (eviction) delete settles.
SettleDel(ok) ==
    /\ Settling("del")
    /\ SettlingItem.op \in {"delete", "evict"}
    /\ RedisOutcome(ok)
    /\ LET item == SettlingItem
       IN /\ redisStore' = IF ok THEN RedisDel(redisStore, {item.ckey}) ELSE redisStore
          /\ Apply(updateStats(MemRest))
          /\ IF item.op = "delete"
             THEN Return([Result("delete", item.n, NoReq, item.ckey, item.solo) EXCEPT
                             !.ok = TRUE])
             ELSE UNCHANGED <<prev, ret>>
    /\ Settled

----------------------------------------------------------------------------
(* clear and disconnect                                                    *)

\* Mutant of clearMemory: the counters are kept, only the sizes are refreshed.
clearMemoryKeepingCounters(m) ==
    updateStats([cacheClear(m) EXCEPT !.ao = <<>>, !.mu = 0])

\* clear() up to its await: the Map, accessOrder, memoryUsage and the stats.
clearMemory(m) == [cacheClear(m) EXCEPT !.ao = <<>>, !.mu = 0, !.st = ZeroStats]

CallClear ==
    /\ CanCall
    /\ LET solo == ~Busy(pending)
           m == clearMemory(MemAtCall)
           item == Item("redis", "clear", "flushdb", calls + 1, NoReq, NoKey, NoEntry, solo)
       IN IF config.redis
          THEN Apply(Suspend(m, item)) /\ UNCHANGED <<prev, ret>>
          ELSE Apply(m) /\ Return(Result("clear", calls + 1, NoReq, NoKey, solo))
    /\ UNCHANGED <<redisStore, redisStatus>>
    /\ Called("clear")

SettleFlushdb(ok) ==
    /\ Settling("flushdb")
    /\ RedisOutcome(ok)
    /\ redisStore' = IF ok THEN {} ELSE redisStore
    /\ Apply(MemRest)
    /\ Return(Result("clear", SettlingItem.n, NoReq, NoKey, SettlingItem.solo))
    /\ Settled

CallDisconnect ==
    /\ CanCall
    /\ LET solo == ~Busy(pending)
           item == Item("yield", "disconnect", "disconnected", calls + 1, NoReq, NoKey,
                        NoEntry, solo)
       IN IF config.redis
          THEN /\ redisStatus' = "end"
               /\ Apply(Suspend(MemAtCall, item))
               /\ UNCHANGED <<prev, ret>>
          ELSE /\ UNCHANGED redisStatus
               /\ Apply(cacheClear(MemAtCall))
               /\ Return(Result("disconnect", calls + 1, NoReq, NoKey, solo))
    /\ UNCHANGED redisStore
    /\ Called("disconnect")

ResumeDisconnect ==
    /\ Settling("disconnected")
    /\ Apply(cacheClear(MemRest))
    /\ Return(Result("disconnect", SettlingItem.n, NoReq, NoKey, SettlingItem.solo))
    /\ UNCHANGED <<redisStore, redisStatus>>
    /\ Settled

----------------------------------------------------------------------------
(* invalidateByPattern                                                     *)

\* The next entry the Map iterator yields whose key contains the pattern; 0 if none.
NextMatch(c, it, pat) ==
    IF \E i \in (it + 1)..Len(c) : Includes(c[i].key, pat)
    THEN CHOOSE i \in (it + 1)..Len(c) :
            /\ Includes(c[i].key, pat)
            /\ \A j \in (it + 1)..(i - 1) : ~Includes(c[j].key, pat)
    ELSE 0

\* The for loop up to its next await: the delete of the next matching key, or,
\* past the last entry, the Redis keys command.  removed collects the keys the
\* call has taken out of a tier.
invalidateLoop(m, item, cfg) ==
    LET i == NextMatch(m.cache, item.it, item.pat)
    IN IF i = 0
       THEN IF cfg.redis
            THEN Suspend(m, [item EXCEPT !.kind = "redis", !.cmd = "keys", !.it = 0])
            ELSE m
       ELSE IF cfg.redis
            THEN Suspend(deleteSync(m, m.cache[i].key),
                         [item EXCEPT !.kind = "redis", !.cmd = "delEach",
                                      !.ckey = m.cache[i].key, !.it = i - 1,
                                      !.removed = @ \cup {m.cache[i].key}])
            ELSE Suspend(updateStats(deleteSync(m, m.cache[i].key)),
                         [item EXCEPT !.kind = "yield", !.cmd = "deleted",
                                      !.ckey = m.cache[i].key, !.it = i - 1,
                                      !.removed = @ \cup {m.cache[i].key}])

invalidateDone(m, item, cfg) == NextMatch(m.cache, item.it, item.pat) = 0 /\ ~cfg.redis

InvalidateStep(m, item) ==
    /\ Apply(invalidateLoop(m, item, config))
    /\ IF invalidateDone(m, item, config)
       THEN Return([Result("invalidate", item.n, NoReq, NoKey, item.solo) EXCEPT
                       !.count = item.count, !.pat = item.pat,
                       !.removed = item.removed])
       ELSE UNCHANGED <<prev, ret>>

CallInvalidate(pat) ==
    /\ CanCall
    /\ InvalidateStep(MemAtCall,
          [Item("yield", "invalidate", "", calls + 1, NoReq, NoKey, NoEntry,
                ~Busy(pending)) EXCEPT !.pat = pat])
    /\ UNCHANGED <<redisStore, redisStatus>>
    /\ Called("invalidate")

\* `await this.delete(key)` resumes without Redis: invalidated++ and on with the loop.
ResumeInvalidate ==
    /\ Settling("deleted")
    /\ InvalidateStep(MemRest, [SettlingItem EXCEPT !.count = @ + 1])
    /\ UNCHANGED <<redisStore, redisStatus>>
    /\ Settled

\* The del issued by delete(key) inside the loop settles.
SettleDelEach(ok) ==
    /\ Settling("delEach")
    /\ RedisOutcome(ok)
    /\ redisStore' = IF ok THEN RedisDel(redisStore, {SettlingItem.ckey}) ELSE redisStore
    /\ InvalidateStep(updateStats(MemRest), [SettlingItem EXCEPT !.count = @ + 1])
    /\ Settled

SettleKeys(ok) ==
    /\ Settling("keys")
    /\ RedisOutcome(ok)
    /\ LET item == SettlingItem
           keys == RedisKeys(redisStore, item.pat, now)
       IN IF ok /\ keys # {}
          THEN /\ Apply(Suspend(MemRest, [item EXCEPT !.cmd = "delMany", !.keys = keys]))
               /\ UNCHANGED <<prev, ret>>
          ELSE /\ Apply(MemRest)
               /\ Return([Result("invalidate", item.n, NoReq, NoKey, item.solo) EXCEPT
                             !.count = item.count, !.pat = item.pat,
                             !.removed = item.removed])
    /\ UNCHANGED redisStore
    /\ Settled

SettleDelMany(ok) ==
    /\ Settling("delMany")
    /\ RedisOutcome(ok)
    /\ LET item == SettlingItem
       IN /\ redisStore' = IF ok THEN RedisDel(redisStore, item.keys) ELSE redisStore
          /\ Apply(MemRest)
          /\ Return([Result("invalidate", item.n, NoReq, NoKey, item.solo) EXCEPT
                        !.count = IF ok THEN item.count + Cardinality(item.keys)
                                  ELSE item.count,
                        !.pat = item.pat,
                        !.removed =
                            IF ok
                            THEN item.removed
                                     \cup (item.keys \cap RedisKeys(redisStore, item.pat, now))
                            ELSE item.removed])
    /\ Settled

----------------------------------------------------------------------------
(* getStats                                                                *)

CallStats ==
    /\ CanCall
    /\ Apply(updateStats(MemAtCall))
    /\ Return([Result("stats", calls + 1, NoReq, NoKey, ~Busy(pending)) EXCEPT
                  !.count = getStats.size])
    /\ UNCHANGED <<redisStore, redisStatus>>
    /\ Called("stats")

----------------------------------------------------------------------------
(* healthCheck                                                             *)

\* The thresholds of healthCheck, in tenths.
UsageUnhealthy == 9
UsageDegraded == 8
HitRateUnhealthy == 3
HitRateDegraded == 5

\* x / y > tenths / 10 and x / y < tenths / 10, for y > 0.
Above(x, y, tenths) == 10 * x > tenths * y
Below(x, y, tenths) == 10 * x < tenths * y

\* Mutant of redisConnected: the connection is taken to be up.
redisConnectedAlways(status) == TRUE

\* this.redis?.status === 'ready'
redisConnected(status) == status = "ready"

\* The three checks in the order of the code, each assigning over the last.
healthCheck(st, cfg, status) ==
    LET memory == IF Above(st.size, cfg.maxSize, UsageUnhealthy) THEN "unhealthy"
                  ELSE IF Above(st.size, cfg.maxSize, UsageDegraded) THEN "degraded"
                  ELSE "healthy"
        performance ==
                  IF Below(st.hitRate.num, st.hitRate.den, HitRateUnhealthy) THEN "unhealthy"
                  ELSE IF Below(st.hitRate.num, st.hitRate.den, HitRateDegraded) THEN "degraded"
                  ELSE memory
    IN IF cfg.redis /\ ~redisConnected(status) THEN "unhealthy" ELSE performance

CallHealth ==
    /\ CanCall
    /\ Apply(MemAtCall)
    /\ Return([Result("health", calls + 1, NoReq, NoKey, ~Busy(pending)) EXCEPT
                  !.status = healthCheck(stats, config, redisStatus),
                  !.count = stats.size])
    /\ UNCHANGED <<redisStore, redisStatus>>
    /\ Called("health")

----------------------------------------------------------------------------
(* warmup                                                                  *)

\* Mutant of warmupJoined: warmup returns without waiting for its loaders.
warmupJoinedEarly(pend, n) == TRUE

\* Promise.all(promises): every callback of keys.map has run to its end.
warmupJoined(pend, n) == \A i \in 1..Len(pend) : pend[i].n = n => pend[i].cmd = "join"

JoinIndex(pend, n) == CHOOSE j \in 1..Len(pend) : pend[j].n = n /\ pend[j].cmd = "join"

\* keys.map(async ...) calls every loader before the first of them is awaited.
CallWarmup(entries) ==
    /\ CanCall
    /\ LET n == calls + 1
           solo == ~Busy(pending)
           loader(i) == Item("loader", "warmup", "load", n, entries[i], NoKey, NoEntry, solo)
           join == [Item("join", "warmup", "join", n, NoReq, NoKey, NoEntry, solo) EXCEPT
                       !.count = Len(entries)]
       IN Apply([MemAtCall EXCEPT
                    !.pend = @ \o [i \in 1..Len(entries) |-> loader(i)] \o <<join>>])
    /\ UNCHANGED <<redisStore, redisStatus, prev, ret>>
    /\ Called("warmup")

\* A loader settles: a rejection is logged; a value goes to this.set(key, value, ttl),
\* whose error, if it raises, is logged as well.
SettleLoader(i, ok, value) ==
    /\ i \in 1..Len(pending)
    /\ pending[i].cmd = "load"
    /\ ~Yielding(pending)
    /\ LET item == pending[i]
           rest == RemoveAt(pending, i)
           j == JoinIndex(rest, item.n)
           noted == IF ok
                    THEN [rest EXCEPT ![j].loaded = @ \cup {[req |-> item.req, val |-> value]}]
                    ELSE rest
           m == [Mem EXCEPT !.pend = noted]
           setItem == Item("redis", "set", "setex", item.n, item.req, RequestKey[item.req],
                           NewEntry(item.req, value, 0, item.n), FALSE)
       IN IF ~ok \/ calculateSizeThrows(value)
          THEN Apply(m) /\ UNCHANGED <<prev, ret, log>>
          ELSE IF config.redis
          THEN Apply(Suspend(m, setItem)) /\ UNCHANGED <<prev, ret, log>>
          ELSE SetInMemory(m, setItem)
    /\ UNCHANGED <<redisStore, redisStatus, remote, resolverVars, automatedStrategy,
                   probe, derived, config, now, ticks, calls, budget>>

\* `await Promise.all(promises)` resumes and warmup returns.
ResumeWarmup ==
    /\ \E j \in 1..Len(pending) :
          /\ pending[j].cmd = "join"
          /\ warmupJoined(pending, pending[j].n)
          /\ \A k \in 1..(j - 1) :
                ~(pending[k].cmd = "join" /\ warmupJoined(pending, pending[k].n))
          /\ Apply([Mem EXCEPT !.pend = RemoveAt(@, j)])
          /\ Return([Result("warmup", pending[j].n, NoReq, NoKey, pending[j].solo) EXCEPT
                        !.count = pending[j].count, !.loaded = pending[j].loaded])
    /\ UNCHANGED <<redisStore, redisStatus>>
    /\ Settled

----------------------------------------------------------------------------
(* The Redis server.                                                       *)

\* The server stops answering: the connection stays open, no reply is sent.
RemoteHangs ==
    /\ config.redis
    /\ remote = "answers"
    /\ remote' = "silent"
    /\ UNCHANGED <<probe, derived, config, cache, accessOrder, stats, memoryUsage,
                   redisStore, redisStatus, resolverVars, automatedStrategy, pending,
                   now, ticks, calls, budget, log, prev, ret>>

----------------------------------------------------------------------------
(* The Cache decorator: a method wrapped with a cache of its own.          *)

\* The wrapped method: its result depends on its arguments only; for the
\* arguments of k3 it returns null.
originalMethod(r) ==
    CASE r = "k1" -> 7
      [] r = "k2" -> 42
      [] OTHER -> Null

\* descriptor.value up to `await originalMethod.apply(...)`: cache.get with
\* the key made of the prefix and the arguments, returned if it is not null.
CallCached(r) ==
    /\ CanCall
    /\ LET n == calls + 1
           solo == ~Busy(pending)
           m == getMemory(MemAtCall, RequestKey[r], now, Stamp("used", n), config)
           cached == getMemoryValue(MemAtCall, RequestKey[r], now)
       IN IF cached # Null
          THEN /\ Apply(m)
               /\ Return([Result("cached", n, r, RequestKey[r], solo) EXCEPT
                             !.ok = TRUE, !.val = cached, !.src = "memory"])
          ELSE /\ Apply(Suspend(m, Item("yield", "cached", "method", n, r, RequestKey[r],
                                        NoEntry, solo)))
               /\ UNCHANGED <<prev, ret>>
    /\ UNCHANGED <<redisStore, redisStatus>>
    /\ Called("cached")

\* The method has run: its result is stored unless null or undefined, and returned.
ResumeCached ==
    /\ Settling("method")
    /\ LET item == SettlingItem
           result == originalMethod(item.req)
       IN /\ IF result # Null
             THEN Apply(setMemory(MemRest, NewEntry(item.req, result, 0, item.n), config))
             ELSE Apply(MemRest)
          /\ Return([Result("cached", item.n, item.req, item.ckey, item.solo) EXCEPT
                        !.ok = TRUE, !.val = result, !.src = "method"])
    /\ UNCHANGED <<redisStore, redisStatus>>
    /\ Settled

----------------------------------------------------------------------------
(* The clock.                                                              *)

TickBy(steps) ==
    /\ ticks < budget.ticks
    /\ \E d \in steps : now' = now + d
    /\ ticks' = ticks + 1
    /\ UNCHANGED <<probe, derived, config, cache, accessOrder, stats, memoryUsage,
                   redisStore, redisStatus, remote, resolverVars, automatedStrategy,
                   pending, calls, budget, log, prev, ret>>

Tick == TickBy(TickSteps)

----------------------------------------------------------------------------
(* The resolvers (src/unnamed/part_001): the data stores, the query and    *)
(* mutation resolvers, and the subscriptions on the PubSub.                *)

\* A stored object: its id, the id of the user it belongs to ("" if none), the
\* id of the bill a payment holds, and the role of a user.
Rec(kind, id, owner, bill, role) ==
    [kind |-> kind, id |-> id, owner |-> owner, bill |-> bill, role |-> role]

\* null or undefined
NoRec == Rec("", "", "", "", "")

UserRec(id, role) == Rec("user", id, id, "", role)

\* Map.prototype.get and Map.prototype.set on a store keyed by id.
StoreGet(store, id) ==
    IF \E r \in store : r.id = id THEN CHOOSE r \in store : r.id = id ELSE NoRec

StoreSet(store, rec) == {r \in store : r.id # rec.id} \cup {rec}

\* initializeMockData: one user, and one bill whose account names no user.
MockUser == UserRec("user-1", "USER")

MockBill == Rec("bill", "bill-1", "", "", "")

MockStores ==
    [users |-> {MockUser}, bills |-> {MockBill}, payments |-> {}, bankAccounts |-> {},
     yieldPositions |-> {}, notifications |-> {}, alerts |-> {}]

\* context.user.id as the server hands it to a resolver; "" for no user.
ContextIds == {"", "user-1", "user-2", "admin-1"}

UserIds == ContextIds \ {""}

getUserFromContext(ctx, st) == IF ctx = "" THEN NoRec ELSE StoreGet(st.users, ctx)

\* The objects a returned object holds: the bill and the user of a payment,
\* the user of the account of a bill, the user of every other record.
Contents(rec, st) ==
    LET holder(r) == IF r.kind # "user" /\ r.owner # ""
                     THEN {StoreGet(st.users, r.owner)} ELSE {}
        bill == IF rec.bill # "" THEN {StoreGet(st.bills, rec.bill)} ELSE {}
    IN ({rec} \cup holder(rec) \cup bill \cup UNION {holder(b) : b \in bill}) \ {NoRec}

Threw(message) == [error |-> message, records |-> {}]

Returned(records) == [error |-> "", records |-> records]

\* A resolver of Query.  `keep` stands for the filter and pagination
\* arguments: the ids they let through.
queryResolvers(op, id, keep, ctx, st) ==
    LET user == getUserFromContext(ctx, st)
        own(store) == Returned({r \in store : r.owner = user.id /\ r.id \in keep})
        one(store, message) ==
            IF StoreGet(store, id) = NoRec \/ StoreGet(store, id).owner # user.id
            THEN Threw(message) ELSE Returned({StoreGet(store, id)})
    IN IF op = "me" THEN Returned({user} \ {NoRec})
       ELSE IF op = "user"
       THEN IF user = NoRec \/ (user.id # id /\ user.role # "ADMIN")
            THEN Threw("Access denied")
            ELSE Returned({StoreGet(st.users, id)} \ {NoRec})
       ELSE IF op = "users"
       THEN IF user = NoRec THEN Threw("TypeError")
            ELSE IF user.role # "ADMIN" THEN Threw("Access denied. Required role: ADMIN")
            ELSE Returned({r \in st.users : r.id \in keep})
       ELSE IF user = NoRec THEN Threw("Authentication required")
       ELSE IF op \in {"bills", "upcomingBills", "overdueBills"} THEN own(st.bills)
       ELSE IF op = "bill" THEN one(st.bills, "Bill not found")
       ELSE IF op = "payments" THEN own(st.payments)
       ELSE IF op = "payment" THEN one(st.payments, "Payment not found")
       ELSE IF op = "bankAccounts" THEN own(st.bankAccounts)
       ELSE IF op = "bankAccount" THEN one(st.bankAccounts, "Bank account not found")
       ELSE IF op = "yieldPositions" THEN own(st.yieldPositions)
       ELSE IF op = "yieldPosition" THEN one(st.yieldPositions, "Yield position not found")
       ELSE IF op = "notifications" THEN own(st.notifications)
       ELSE own(st.alerts)

QueryOps ==
    {"me", "user", "users", "bills", "bill", "upcomingBills", "overdueBills", "payments",
     "payment", "bankAccounts", "bankAccount", "yieldPositions", "yieldPosition",
     "notifications", "alerts"}

NoReply == [kind |-> "", op |-> "", id |-> "", ctx |-> "", error |-> "", records |-> {}]

Reply(kind, op, id, ctx, res, st) ==
    [kind |-> kind, op |-> op, id |-> id, ctx |-> ctx, error |-> res.error,
     records |-> UNION {Contents(r, st) : r \in res.records}]

\* A resolver call leaves the cache alone.
Resolved ==
    /\ calls' = calls + 1
    /\ UNCHANGED <<probe, derived, config, cache, accessOrder, stats, memoryUsage,
                   redisStore, redisStatus, remote, automatedStrategy, pending, now,
                   ticks, budget, log, prev, ret>>

Query(op, id, keep, ctx) ==
    /\ CanCall
    /\ reply' = Reply("query", op, id, ctx, queryResolvers(op, id, keep, ctx, stores), stores)
    /\ UNCHANGED <<stores, subscriptions>>
    /\ Resolved

\* The subscription event constants.
PAYMENT_UPDATED == "PAYMENT_UPDATED"
ALERT_TRIGGERED == "ALERT_TRIGGERED"

SubscriptionFields == {"paymentUpdated", "alertTriggered"}

EventOf(field) == IF field = "paymentUpdated" THEN PAYMENT_UPDATED ELSE ALERT_TRIGGERED

\* `${EVENT}_${userId}`
UserTopic(eventType, userId) == eventType \o "_" \o userId

\* resolve: (payload) => payload[field]; undefined when the payload has no such property.
resolve(field, payload) == IF payload.key = field THEN payload.data ELSE NoRec

\* pubsub.publish(trigger, payload): the iterators listening on exactly this
\* trigger name receive the payload.
publish(subs, trigger, payload) ==
    [i \in 1..Len(subs) |->
        IF subs[i].trigger = trigger
        THEN [subs[i] EXCEPT !.received = Append(@, resolve(subs[i].field, payload))]
        ELSE subs[i]]

\* Recorded for the properties: what was created for the user of a
\* subscription while it was open.
Owe(subs, field, rec) ==
    [i \in 1..Len(subs) |->
        IF subs[i].field = field /\ subs[i].userId = rec.owner
        THEN [subs[i] EXCEPT !.owed = @ \cup {rec}] ELSE subs[i]]

\* Subscription.<field>.subscribe
Subscribe(field, userId, ctx) ==
    /\ CanCall
    /\ LET user == getUserFromContext(ctx, stores)
       IN IF user = NoRec \/ user.id # userId
          THEN /\ reply' = Reply("subscription", field, userId, ctx, Threw("Access denied"),
                                 stores)
               /\ UNCHANGED subscriptions
          ELSE /\ subscriptions' =
                      Append(subscriptions,
                             [field |-> field, userId |-> userId,
                              trigger |-> UserTopic(EventOf(field), userId),
                              received |-> <<>>, owed |-> {}])
               /\ reply' = Reply("subscription", field, userId, ctx, Returned({}), stores)
    /\ UNCHANGED stores
    /\ Resolved

\* Mutation.createPayment; the id of the payment is `payment-${Date.now()}`.
CreatePayment(ctx, billId) ==
    /\ CanCall
    /\ LET user == getUserFromContext(ctx, stores)
           bill == StoreGet(stores.bills, billId)
           payment == Rec("payment", "payment-" \o ToString(now), user.id, bill.id, "")
           stored == [stores EXCEPT !.payments = StoreSet(@, payment)]
           res == IF user = NoRec THEN Threw("Authentication required")
                  ELSE IF bill = NoRec THEN Threw("Bill not found")
                  ELSE Returned({payment})
       IN IF res.error # ""
          THEN /\ reply' = Reply("mutation", "createPayment", billId, ctx, res, stores)
               /\ UNCHANGED <<stores, subscriptions>>
          ELSE /\ stores' = stored
               /\ subscriptions' =
                      Owe(publish(subscriptions, PAYMENT_UPDATED,
                                  [key |-> "paymentUpdated", data |-> payment]),
                          "paymentUpdated", payment)
               /\ reply' = Reply("mutation", "createPayment", billId, ctx, res, stored)
    /\ Resolved

\* Mutation.createAlert; the id of the alert is `alert-${Date.now()}`.
CreateAlert(ctx) ==
    /\ CanCall
    /\ LET user == getUserFromContext(ctx, stores)
           alert == Rec("alert", "alert-" \o ToString(now), user.id, "", "")
           stored == [stores EXCEPT !.alerts = StoreSet(@, alert)]
       IN IF user = NoRec
          THEN /\ reply' = Reply("mutation", "createAlert", "", ctx,
                                 Threw("Authentication required"), stores)
               /\ UNCHANGED <<stores, subscriptions>>
          ELSE /\ stores' = stored
               /\ subscriptions' =
                      Owe(publish(subscriptions, ALERT_TRIGGERED,
                                  [key |-> "alertTriggered", data |-> alert]),
                          "alertTriggered", alert)
               /\ reply' = Reply("mutation", "createAlert", "", ctx, Returned({alert}), stored)
    /\ Resolved

\* The exported helper publishEvent(eventType, data, userId), for callers
\* outside the resolvers: the payload is {[eventType]: data, userId}.
publishEvent(eventType, data, userId) ==
    /\ CanCall
    /\ subscriptions' =
           publish(subscriptions,
                   IF userId # "" THEN UserTopic(eventType, userId) ELSE eventType,
                   [key |-> eventType, data |-> data])
    /\ reply' = Reply("publish", eventType, userId, "", Returned({}), stores)
    /\ UNCHANGED stores
    /\ Resolved

----------------------------------------------------------------------------
(* AutomatedStrategy (automated-automatedStrategy.ts) with the RiskManager          *)
(* (src/unnamed/part_000) and the YieldMonitor it is constructed with.     *)

\* A timer handle; 0 stands for null.
NoTimer == 0

TimerKinds == {"execution", "risk", "yield"}

NoOutcome == [n |-> 0, op |-> "none", res |-> ""]

\* The three objects after construction.  timers are the intervals that are
\* set and not cleared; deploying counts the calls of startAutomatedStrategy
\* suspended at `await this.executeInitialDeployment(...)`.
InitStrategy ==
    automatedStrategy = [isRunning |-> FALSE, executionInterval |-> NoTimer,
                riskInterval |-> NoTimer,
                monitoringActive |-> FALSE, yieldInterval |-> NoTimer,
                timers |-> {}, handles |-> 0, deploying |-> 0, fired |-> NoTimer,
                outcome |-> NoOutcome]

\* setInterval: a new handle, live until it is cleared.
setInterval(s, kind) ==
    [s EXCEPT !.handles = @ + 1,
              !.timers = @ \cup {[id |-> s.handles + 1, kind |-> kind]}]

clearInterval(s, id) == [s EXCEPT !.timers = {t \in @ : t.id # id}]

\* RiskManager.startRiskMonitoring
startRiskMonitoring(s) ==
    [setInterval(s, "risk") EXCEPT !.riskInterval = s.handles + 1]

\* YieldMonitor.startMonitoring
startMonitoring(s) ==
    IF s.monitoringActive THEN s
    ELSE [setInterval([s EXCEPT !.monitoringActive = TRUE], "yield") EXCEPT
             !.yieldInterval = s.handles + 1]

setupAlertHandlers(s) == startMonitoring(startRiskMonitoring(s))

StrategyFrame ==
    UNCHANGED <<probe, derived, config, cache, accessOrder, stats, memoryUsage,
                redisStore, redisStatus, remote, resolverVars, pending, now, ticks,
                budget, log, prev, ret>>

\* startAutomatedStrategy up to its await: it throws if isRunning, else sets
\* isRunning and waits for the initial deployment.
startAutomatedStrategy ==
    /\ CanCall
    /\ automatedStrategy' =
           IF automatedStrategy.isRunning
           THEN [automatedStrategy EXCEPT
                    !.outcome = [n |-> @.n + 1, op |-> "start",
                                 res |-> "Strategy is already running"]]
           ELSE [automatedStrategy EXCEPT !.isRunning = TRUE, !.deploying = @ + 1]
    /\ calls' = calls + 1
    /\ StrategyFrame

\* executeInitialDeployment settles.  It throws if the YieldManager offers no
\* strategy of the configured risk tolerance, and startAutomatedStrategy with
\* it; otherwise the execution timer is set and the alert handlers are set up.
executeInitialDeployment(suitable) ==
    /\ automatedStrategy.deploying > 0
    /\ LET s == [automatedStrategy EXCEPT !.deploying = @ - 1]
       IN automatedStrategy' =
             IF suitable
             THEN [setupAlertHandlers(
                       [setInterval(s, "execution") EXCEPT
                           !.executionInterval = s.handles + 1]) EXCEPT
                      !.outcome = [n |-> @.n + 1, op |-> "start", res |-> "started"]]
             ELSE [s EXCEPT
                      !.outcome = [n |-> @.n + 1, op |-> "start",
                                   res |-> "No suitable strategies found"]]
    /\ UNCHANGED calls
    /\ StrategyFrame

stopAutomatedStrategy ==
    /\ CanCall
    /\ LET s == [automatedStrategy EXCEPT
                    !.outcome = [n |-> @.n + 1, op |-> "stop", res |-> "returned"]]
       IN automatedStrategy' =
             IF ~automatedStrategy.isRunning THEN s
             ELSE IF automatedStrategy.executionInterval # NoTimer
             THEN [clearInterval(s, automatedStrategy.executionInterval) EXCEPT
                      !.isRunning = FALSE, !.executionInterval = NoTimer]
             ELSE [s EXCEPT !.isRunning = FALSE]
    /\ calls' = calls + 1
    /\ StrategyFrame

\* A live interval runs its callback.
TimerFires ==
    /\ \E t \in automatedStrategy.timers :
          /\ automatedStrategy.fired # t.id
          /\ automatedStrategy' = [automatedStrategy EXCEPT !.fired = t.id]
    /\ UNCHANGED calls
    /\ StrategyFrame

----------------------------------------------------------------------------
(* Key derivation on its own.                                              *)

NoProbe == [a |-> [operationName |-> Undef, variables |-> Undef,
                   fieldName |-> Str(""), args |-> Obj(<<>>)],
            b |-> [operationName |-> Undef, variables |-> Undef,
                   fieldName |-> Str(""), args |-> Obj(<<>>)]]

DeriveKeys ==
    /\ derived = <<>>
    /\ derived' = << generateCacheKey(probe.a.operationName, probe.a.variables,
                                      probe.a.fieldName, probe.a.args),
                     generateCacheKey(probe.b.operationName, probe.b.variables,
                                      probe.b.fieldName, probe.b.args) >>
    /\ UNCHANGED <<probe, cacheVars, resolverVars, automatedStrategy>>

----------------------------------------------------------------------------
(* Specifications.                                                         *)

Budget(c, f, t, record) == [calls |-> c, inflight |-> f, ticks |-> t, record |-> record]

InitCache ==
    /\ derived = <<>>
    /\ cache = <<>>
    /\ accessOrder = <<>>
    /\ stats = ZeroStats
    /\ memoryUsage = 0
    /\ redisStore = {}
    /\ redisStatus = IF config.redis THEN "wait" ELSE "none"
    /\ remote = "answers"
    /\ pending = <<>>
    /\ now = 0
    /\ ticks = 0
    /\ calls = 0
    /\ log = [setKeys |-> {}, onlySets |-> TRUE]
    /\ prev = NoResult
    /\ ret = NoResult

\* The module of the resolvers after it was loaded.
InitResolvers ==
    /\ stores = MockStores
    /\ subscriptions = <<>>
    /\ reply = NoReply

Strategies == {"lru", "fifo", "lfu"}

DefaultTtl == 1

Config(strategy, maxSize, redis) ==
    [strategy |-> strategy, maxSize |-> maxSize, ttl |-> DefaultTtl, redis |-> redis]

\* The cache without a Redis tier: every call runs to completion when issued.
MemRequests == {"a", "b", "c"}

InitMem ==
    /\ probe = NoProbe
    /\ config \in {Config(s, m, FALSE) : s \in Strategies, m \in 1..2}
    /\ budget = Budget(MaxCalls, MaxInFlight, 0, {"prev", "born", "used"})
    /\ InitCache
    /\ InitStrategy
    /\ InitResolvers

NextMem ==
    \/ \E r \in MemRequests : CallGet(r)
    \/ \E r \in MemRequests : CallSet(r, 7, 0)
    \/ \E r \in MemRequests : CallDelete(RequestKey[r])
    \/ CallClear
    \/ CallDisconnect
    \/ \E pat \in Patterns : CallInvalidate(pat)
    \/ ResumeInvalidate

SpecMem == InitMem /\ [][NextMem]_vars

\* A cache configured with no room, next to one with room for one entry.
ZeroRequests == {"a", "b"}

InitZero ==
    /\ probe = NoProbe
    /\ config \in {Config(s, m, FALSE) : s \in Strategies, m \in 0..1}
    /\ budget = Budget(MaxZeroCalls, MaxInFlight, 0, {})
    /\ InitCache
    /\ InitStrategy
    /\ InitResolvers

NextZero ==
    \/ \E r \in ZeroRequests : CallGet(r)
    \/ \E r \in ZeroRequests : CallSet(r, 7, 0)
    \/ \E r \in ZeroRequests : CallDelete(RequestKey[r])

SpecZero == InitZero /\ [][NextZero]_vars

\* A method wrapped by Cache, called with three different arguments.
CachedRequests == {"k1", "k2", "k3"}

InitCached ==
    /\ probe = NoProbe
    /\ config = Config("lru", 2, FALSE)
    /\ budget = Budget(MaxCachedCalls, MaxInFlight, MaxTicks, {})
    /\ InitCache
    /\ InitStrategy
    /\ InitResolvers

NextCached ==
    \/ \E r \in CachedRequests : CallCached(r)
    \/ ResumeCached
    \/ Tick

SpecCached == InitCached /\ [][NextCached]_vars

\* An AutomatedStrategy started and stopped, whose YieldManager offers a
\* suitable strategy or none.
InitAutomated ==
    /\ probe = NoProbe
    /\ config = Config("lru", 1, FALSE)
    /\ budget = Budget(MaxStrategyCalls, MaxInFlight, 0, {})
    /\ InitCache
    /\ InitStrategy
    /\ InitResolvers

NextAutomated ==
    \/ startAutomatedStrategy
    \/ \E suitable \in BOOLEAN : executeInitialDeployment(suitable)
    \/ stopAutomatedStrategy
    \/ TimerFires

SpecAutomated == InitAutomated /\ [][NextAutomated]_vars

\* The lfu example of the specification: four keys, room for three.
LfuRequests == {"a", "b", "c", "d"}

InitLfu ==
    /\ probe = NoProbe
    /\ config = Config("lfu", 3, FALSE)
    /\ budget = Budget(MaxLfuCalls, MaxInFlight, 0, {"born"})
    /\ InitCache
    /\ InitStrategy
    /\ InitResolvers

NextLfu ==
    \/ \E r \in LfuRequests : CallGet(r)
    \/ \E r \in LfuRequests : CallSet(r, 7, 0)

SpecLfu == InitLfu /\ [][NextLfu]_vars

\* Calls that differ in the caller's key only, as the eviction test issues them.
CallerRequests == {"k1", "k2", "k3", "q1", "q2"}

InitCaller ==
    /\ probe = NoProbe
    /\ config \in {Config(s, 2, FALSE) : s \in Strategies}
    /\ budget = Budget(MaxCalls, MaxInFlight, 0, {"prev"})
    /\ InitCache
    /\ InitStrategy
    /\ InitResolvers

NextCaller ==
    \/ \E r \in CallerRequests : CallGet(r)
    \/ \E r \in CallerRequests, v \in Values : CallSet(r, v, 0)
    \/ \E r \in CallerRequests : CallDelete(RequestKey[r])
    \/ CallClear

SpecCaller == InitCaller /\ [][NextCaller]_vars

\* Entries stored under user-scoped caller keys, and pattern invalidation.
PatternRequests == {"q1", "q2", "q3"}

InitPattern ==
    /\ probe = NoProbe
    /\ config \in {Config(s, 3, FALSE) : s \in Strategies}
    /\ budget = Budget(MaxPatternCalls, MaxInFlight, 0, {})
    /\ InitCache
    /\ InitStrategy
    /\ InitResolvers

NextPattern ==
    \/ \E r \in PatternRequests : CallGet(r)
    \/ \E r \in PatternRequests, v \in Values : CallSet(r, v, 0)
    \/ \E pat \in Patterns : CallInvalidate(pat)
    \/ ResumeInvalidate

SpecPattern == InitPattern /\ [][NextPattern]_vars

\* delete called with the key the caller gave to set, or with the derived key.
DeleteRequests == {"a", "b"}

DeleteKeys == {CallerKey(r) : r \in DeleteRequests} \cup {RequestKey[r] : r \in DeleteRequests}

InitDelete ==
    /\ probe = NoProbe
    /\ config \in {Config("lru", 2, redis) : redis \in BOOLEAN}
    /\ budget = Budget(MaxDeleteCalls, MaxInFlight, 0, {"prev"})
    /\ InitCache
    /\ InitStrategy
    /\ InitResolvers

NextDelete ==
    \/ \E r \in DeleteRequests : CallGet(r)
    \/ \E r \in DeleteRequests : CallSet(r, 7, 0)
    \/ \E key \in DeleteKeys : CallDelete(key)
    \/ \E ok \in BOOLEAN : SettleGet(ok)
    \/ \E ok \in BOOLEAN : SettleSetex(ok)
    \/ \E ok \in BOOLEAN : SettleDel(ok)

SpecDelete == InitDelete /\ [][NextDelete]_vars

\* set called with values that serialize and with one that does not.
SerialRequests == {"a", "b"}

SerialValues == {7, Circular}

InitSerial ==
    /\ probe = NoProbe
    /\ config \in {Config("lru", 1, redis) : redis \in BOOLEAN}
    /\ budget = Budget(MaxSerialCalls, MaxInFlight, 0, {})
    /\ InitCache
    /\ InitStrategy
    /\ InitResolvers

NextSerial ==
    \/ \E r \in SerialRequests : CallGet(r)
    \/ \E r \in SerialRequests, v \in SerialValues : CallSet(r, v, 0)
    \/ \E ok \in BOOLEAN : SettleGet(ok)
    \/ \E ok \in BOOLEAN : SettleSetex(ok)
    \/ \E ok \in BOOLEAN : SettleDel(ok)

SpecSerial == InitSerial /\ [][NextSerial]_vars

\* warmup with up to two entries, whose loaders resolve or reject; one warmup
\* at a time, gets at any time.
WarmupRequests == {"k1", "k2"}

WarmupLists ==
    {<<>>} \cup {<<r>> : r \in WarmupRequests}
           \cup {l \in {<<r1, r2>> : r1 \in WarmupRequests, r2 \in WarmupRequests} :
                    l[1] # l[2]}

LoaderValues == Values \cup {Circular}

WarmupRunning == \E i \in 1..Len(pending) : pending[i].op = "warmup"

InitWarmup ==
    /\ probe = NoProbe
    /\ config \in {Config("lru", 2, redis) : redis \in BOOLEAN}
    /\ budget = Budget(MaxWarmupCalls, MaxInFlight, 0, {})
    /\ InitCache
    /\ InitStrategy
    /\ InitResolvers

NextWarmup ==
    \/ \E entries \in WarmupLists : ~WarmupRunning /\ CallWarmup(entries)
    \/ \E i \in 1..Len(pending), ok \in BOOLEAN, v \in LoaderValues : SettleLoader(i, ok, v)
    \/ ResumeWarmup
    \/ \E r \in WarmupRequests : CallGet(r)
    \/ \E ok \in BOOLEAN : SettleGet(ok)
    \/ \E ok \in BOOLEAN : SettleSetex(ok)

SpecWarmup == InitWarmup /\ [][NextWarmup]_vars

\* healthCheck after gets and sets, with and without a remote tier.
HealthRequests == {"a", "b"}

InitHealth ==
    /\ probe = NoProbe
    /\ config \in {Config("lru", m, redis) : m \in 1..2, redis \in BOOLEAN}
    /\ budget = Budget(MaxHealthCalls, MaxInFlight, 0, {})
    /\ InitCache
    /\ InitStrategy
    /\ InitResolvers

NextHealth ==
    \/ \E r \in HealthRequests : CallGet(r)
    \/ \E r \in HealthRequests : CallSet(r, 7, 0)
    \/ CallHealth
    \/ \E ok \in BOOLEAN : SettleGet(ok)
    \/ \E ok \in BOOLEAN : SettleSetex(ok)
    \/ \E ok \in BOOLEAN : SettleDel(ok)

SpecHealth == InitHealth /\ [][NextHealth]_vars

\* get and set against a server that may stop answering.  A server that
\* answers answers every command; the microtasks of the cache always run.
BoundedRequests == {"a", "b"}

InitBounded ==
    /\ probe = NoProbe
    /\ config \in {Config("lru", 1, redis) : redis \in BOOLEAN}
    /\ budget = Budget(MaxBoundedCalls, MaxInFlight, 0, {})
    /\ InitCache
    /\ InitStrategy
    /\ InitResolvers

NextBounded ==
    \/ \E r \in BoundedRequests : CallGet(r)
    \/ \E r \in BoundedRequests : CallSet(r, 7, 0)
    \/ \E ok \in BOOLEAN : SettleGet(ok)
    \/ \E ok \in BOOLEAN : SettleSetex(ok)
    \/ \E ok \in BOOLEAN : SettleDel(ok)
    \/ RemoteHangs

SpecBounded ==
    /\ InitBounded
    /\ [][NextBounded]_vars
    /\ WF_vars(\E ok \in BOOLEAN : SettleGet(ok))
    /\ WF_vars(\E ok \in BOOLEAN : SettleSetex(ok))
    /\ WF_vars(\E ok \in BOOLEAN : SettleDel(ok))

\* Subscriptions and the mutations that publish to them.  The stores stand for
\* databases: they hold the mock user alone, or further users beside it.
OtherUsers == {UserRec("user-2", "USER"), UserRec("admin-1", "ADMIN")}

DeliveryBills == {"bill-1", "bill-0"}

InitDelivery ==
    /\ probe = NoProbe
    /\ config = Config("lru", 2, FALSE)
    /\ budget = Budget(MaxDeliveryCalls, MaxInFlight, MaxDeliveryTicks, {})
    /\ InitCache
    /\ InitStrategy
    /\ stores \in {MockStores, [MockStores EXCEPT !.users = @ \cup OtherUsers]}
    /\ subscriptions = <<>>
    /\ reply = NoReply

NextDelivery ==
    \/ \E field \in SubscriptionFields, userId \in UserIds, ctx \in ContextIds :
          Subscribe(field, userId, ctx)
    \/ \E ctx \in ContextIds, billId \in DeliveryBills : CreatePayment(ctx, billId)
    \/ \E ctx \in ContextIds : CreateAlert(ctx)
    \/ \E field \in SubscriptionFields, userId \in UserIds,
           data \in stores.payments \cup stores.alerts :
          publishEvent(EventOf(field), data, userId)
    \/ Tick

SpecDelivery == InitDelivery /\ [][NextDelivery]_vars /\ WF_vars(NextDelivery)

\* The query resolvers over stores that hold the records of several users;
\* payments and alerts come from the mutations.
AccessUsers == {MockUser} \cup OtherUsers

AccessBills ==
    {Rec("bill", "bill-2", "user-2", "", ""), Rec("bill", "bill-3", "user-1", "", "")}

OfBothUsers(kind, prefix) ==
    {Rec(kind, prefix \o "-1", "user-1", "", ""), Rec(kind, prefix \o "-2", "user-2", "", "")}

AccessStores ==
    {[MockStores EXCEPT !.users = AccessUsers, !.bills = @ \cup b, !.bankAccounts = a,
                        !.yieldPositions = y, !.notifications = n] :
        b \in {{}, AccessBills},
        a \in {{}, OfBothUsers("bankAccount", "account")},
        y \in {{}, OfBothUsers("yieldPosition", "position")},
        n \in {{}, OfBothUsers("notification", "notification")}}

AccessIds ==
    UserIds \cup {"bill-1", "bill-2", "bill-3", "account-1", "account-2", "position-1",
                  "position-2", "notification-1", "notification-2", "payment-0", "alert-0"}

\* Filters and pagination that let everything through, or some records.
KeepSets == {AccessIds, {"user-2", "bill-1", "bill-2", "account-2", "position-1", "payment-0"}}

\* The resolvers that take an id, and those that take filters and pagination.
ById == {"user", "bill", "payment", "bankAccount", "yieldPosition"}

QueryArgs ==
    {[op |-> op, id |-> id, keep |-> AccessIds] : op \in ById, id \in AccessIds}
        \cup {[op |-> op, id |-> "", keep |-> keep] : op \in QueryOps \ ById, keep \in KeepSets}

PaymentBills == {"bill-0", "bill-1", "bill-2", "bill-3"}

InitAccess ==
    /\ probe = NoProbe
    /\ config = Config("lru", 2, FALSE)
    /\ budget = Budget(MaxAccessCalls, MaxInFlight, 0, {})
    /\ InitCache
    /\ InitStrategy
    /\ stores \in AccessStores
    /\ subscriptions = <<>>
    /\ reply = NoReply

NextAccess ==
    \/ \E q \in QueryArgs, ctx \in ContextIds : Query(q.op, q.id, q.keep, ctx)
    \/ \E ctx \in ContextIds, billId \in PaymentBills : CreatePayment(ctx, billId)
    \/ \E ctx \in ContextIds : CreateAlert(ctx)

SpecAccess == InitAccess /\ [][NextAccess]_vars

\* generateCacheKey applied to two requests.
InitKey ==
    /\ probe \in [a : ProbeRequests, b : ProbeRequests]
    /\ config = Config("lru", 2, FALSE)
    /\ budget = Budget(0, 0, 0, {})
    /\ InitCache
    /\ InitStrategy
    /\ InitResolvers

NextKey == DeriveKeys

SpecKey == InitKey /\ [][NextKey]_vars

\* The cache with a Redis tier: calls suspend at their awaits and interleave.
Requests == {"a", "b"}

InitRedis ==
    /\ probe = NoProbe
    /\ config = Config("lru", 1, TRUE)
    /\ budget = Budget(MaxRedisCalls, MaxInFlight, 0, {"prev"})
    /\ InitCache
    /\ InitStrategy
    /\ InitResolvers

Next ==
    \/ \E r \in Requests : CallGet(r)
    \/ \E r \in Requests, v \in Values : CallSet(r, v, 0)
    \/ \E r \in Requests : CallDelete(RequestKey[r])
    \/ CallClear
    \/ CallDisconnect
    \/ \E pat \in Patterns : CallInvalidate(pat)
    \/ \E ok \in BOOLEAN : SettleGet(ok)
    \/ \E ok \in BOOLEAN : SettleSetex(ok)
    \/ \E ok \in BOOLEAN : SettleDel(ok)
    \/ \E ok \in BOOLEAN : SettleFlushdb(ok)
    \/ \E ok \in BOOLEAN : SettleDelEach(ok)
    \/ \E ok \in BOOLEAN : SettleKeys(ok)
    \/ \E ok \in BOOLEAN : SettleDelMany(ok)
    \/ ResumeDisconnect

Spec == InitRedis /\ [][Next]_vars

\* Entries of different ttl under a moving clock and under capacity pressure.
LazyRequests == {"a", "b", "c"}

InitLazy ==
    /\ probe = NoProbe
    /\ config \in {Config(s, 2, FALSE) : s \in Strategies}
    /\ budget = Budget(MaxLazyCalls, MaxInFlight, MaxTicks, {})
    /\ InitCache
    /\ InitStrategy
    /\ InitResolvers

NextLazy ==
    \/ \E r \in LazyRequests : CallGet(r)
    \/ \E r \in LazyRequests, ttl \in TtlArgs : CallSet(r, 7, ttl)
    \/ \E r \in LazyRequests : CallDelete(RequestKey[r])
    \/ CallStats
    \/ CallHealth
    \/ TickBy({MsPerSecond})

SpecLazy == InitLazy /\ [][NextLazy]_vars

\* The cache under a moving clock, with and without a Redis tier.
TtlRequests == {"a"}

InitTtl ==
    /\ probe = NoProbe
    /\ config \in {Config("lru", 2, redis) : redis \in BOOLEAN}
    /\ budget = Budget(MaxTtlCalls, MaxInFlight, MaxTicks, {})
    /\ InitCache
    /\ InitStrategy
    /\ InitResolvers

NextTtl ==
    \/ \E r \in TtlRequests : CallGet(r)
    \/ \E r \in TtlRequests, ttl \in TtlArgs : CallSet(r, 7, ttl)
    \/ \E ok \in BOOLEAN : SettleGet(ok)
    \/ \E ok \in BOOLEAN : SettleSetex(ok)
    \/ Tick

SpecTtl == InitTtl /\ [][NextTtl]_vars

----------------------------------------------------------------------------
(* Properties.                                                             *)

\* The last two calls that returned are a set and, issued right after it with
\* nothing else in flight, a get of the same request.
SetThenGet ==
    /\ prev.op = "set"
    /\ ret.op = "get"
    /\ ret.n = prev.n + 1
    /\ ret.solo
    /\ ret.req = prev.req

\* C1: a completed set(k, v, ttl) followed immediately by get(k) returns v,
\* provided no eviction removed k and the ttl has not elapsed, whatever the
\* Redis tier did in between.
RoundTrip ==
    (/\ SetThenGet
     /\ ~(prev.evicted /\ prev.victim = prev.ckey)
     /\ ret.t - prev.t <= prev.ttl * MsPerSecond)
        => (ret.ok /\ ret.val = prev.val)

\* Two requests that differ in nothing but the caller's key.
SameOtherArguments(r1, r2) ==
    /\ RequestOf[r1].operationName = RequestOf[r2].operationName
    /\ RequestOf[r1].variables = RequestOf[r2].variables
    /\ RequestOf[r1].fieldName = RequestOf[r2].fieldName
    /\ RequestOf[r1].args = RequestOf[r2].args

\* set(k1, v1) and then set(k2, v2) returned, k1 # k2, v1 # v2, nothing evicted.
TwoCallerKeysSet ==
    /\ prev.op = "set"
    /\ ret.op = "set"
    /\ ret.n = prev.n + 1
    /\ CallerKey(prev.req) # CallerKey(ret.req)
    /\ SameOtherArguments(prev.req, ret.req)
    /\ prev.val # ret.val
    /\ ~ret.evicted

\* C2: set(k1, v1) then set(k2, v2) with k1 # k2 stores two separate entries,
\* and a following get(k1) returns v1, never v2.
KeyedByCallerKey ==
    [][TwoCallerKeysSet =>
        /\ \E i, j \in 1..Len(cache) :
              i # j /\ cache[i].value = prev.val /\ cache[j].value = ret.val
        /\ (ret'.op = "get" /\ ret'.n = ret.n + 1 /\ ret'.req = prev.req)
              => (ret'.val = prev.val /\ ret'.val # ret.val)]_vars

\* C3: whenever a set has returned, the in-memory store holds at most maxSize
\* entries, whatever calls came before it.
CapacityInvariant == ret.op = "set" => Len(cache) <= config.maxSize

\* C4: after set was called with more pairwise distinct caller keys than
\* maxSize, getStats reports size <= maxSize and evictions > 0.
EvictionAfterDistinctKeys ==
    (log.onlySets /\ pending = <<>> /\ Cardinality(log.setKeys) > config.maxSize)
        => (getStats.size <= config.maxSize /\ getStats.evictions > 0)

\* A set returns in this step.
SetReturns == ret'.op = "set" /\ ret'.n # ret.n

CacheKeys(c) == [i \in 1..Len(c) |-> c[i].key]

\* The keys among which a returning set chooses its victim: those stored
\* before it and the key it writes.
Candidates == {cache[i].key : i \in 1..Len(cache)} \cup {ret'.ckey}

\* The ordinal of the last successful get or set of a candidate.
LastUse(key) == IF key = ret'.ckey THEN ret'.n ELSE cache[CacheIndex(cache, key)].used

\* C5: under lru the eviction victim is the stored key whose last successful
\* get or set is the oldest.
LruVictimIsOldestUse ==
    [][(config.strategy = "lru" /\ ~config.redis /\ SetReturns /\ ret'.victim # NoKey) =>
        /\ ret'.victim \in Candidates
        /\ \A key \in Candidates : LastUse(ret'.victim) <= LastUse(key)]_vars

\* The ordinal of the set that inserted a candidate.
Born(key) ==
    IF CacheIndex(cache, key) > 0 THEN cache[CacheIndex(cache, key)].born ELSE ret'.n

\* C6: under fifo the eviction victim is the earliest-inserted key still in
\* the store, and a set that overwrites a key leaves the order of the keys as
\* it was.
FifoVictimIsEarliestInserted ==
    [][(config.strategy = "fifo" /\ SetReturns) =>
        /\ ret'.victim # NoKey =>
              /\ ret'.evicted
              /\ ret'.victim \in Candidates
              /\ \A key \in Candidates \ {ret'.victim} : Born(ret'.victim) < Born(key)
        /\ \A x, y \in {cache[i].key : i \in 1..Len(cache)}
                          \cap {cache'[i].key : i \in 1..Len(cache')} :
              (CacheIndex(cache, x) < CacheIndex(cache, y))
                  <=> (CacheIndex(cache', x) < CacheIndex(cache', y))]_vars

\* set(a), set(b), set(a) again, set(c) with maxSize 2 under fifo: a was
\* overwritten and is evicted all the same, {b, c} stay.
FifoExample ==
    /\ config.strategy = "fifo" /\ config.maxSize = 2
    /\ prev.op = "set" /\ prev.req = "a" /\ prev.n = 3
    /\ ret.op = "set" /\ ret.req = "c" /\ ret.n = 4
    /\ ret.victim = RequestKey["a"] /\ ret.evicted
    /\ CacheKeys(cache) = <<RequestKey["b"], RequestKey["c"]>>

\* The candidates of a returning set in Map order, and their hit counts as the
\* scan sees them: the written entry starts at 0 hits.
ScanOrder ==
    IF CacheIndex(cache, ret'.ckey) > 0 THEN CacheKeys(cache)
    ELSE Append(CacheKeys(cache), ret'.ckey)

ScanHits(key) == IF key = ret'.ckey THEN 0 ELSE cache[CacheIndex(cache, key)].hits

\* C7: under lfu the eviction victim has the minimum hit count and is the
\* first entry, in insertion order, that has it.
LfuVictimIsFirstMinimum ==
    [][(config.strategy = "lfu" /\ SetReturns /\ ret'.victim # NoKey) =>
        /\ ret'.evicted
        /\ IndexOf(ScanOrder, ret'.victim) > 0
        /\ \A j \in 1..Len(ScanOrder) :
              /\ ScanHits(ScanOrder[j]) >= ScanHits(ret'.victim)
              /\ j < IndexOf(ScanOrder, ret'.victim)
                    => ScanHits(ScanOrder[j]) > ScanHits(ret'.victim)]_vars

\* maxSize 3, hits a:0, b:2, c:1 in insertion order a, b, c: inserting d evicted a.
LfuExample ==
    /\ config.strategy = "lfu" /\ config.maxSize = 3
    /\ ret.op = "set" /\ ret.req = "d"
    /\ ret.victim = RequestKey["a"] /\ ret.evicted
    /\ CacheKeys(cache) = <<RequestKey["b"], RequestKey["c"], RequestKey["d"]>>
    /\ cache[1].hits = 2 /\ cache[2].hits = 1 /\ cache[3].hits = 0
    /\ cache[1].born = 2 /\ cache[2].born = 3
    /\ stats.hits = 3 /\ stats.misses = 0 /\ calls = 7

\* A get returns in this step; it was issued with no other call in flight and
\* is answered at the clock reading at which it was issued.
GetReturns == ret'.op = "get" /\ ret'.n # ret.n /\ ret'.solo /\ ret'.at = now

\* The in-memory entry a returning get finds under its key.
Found == cache[CacheIndex(cache, ret'.ckey)]

SameRequest ==
    /\ OrElse(probe.a.operationName, Str("anonymous"))
           = OrElse(probe.b.operationName, Str("anonymous"))
    /\ probe.a.fieldName = probe.b.fieldName
    /\ MapEq(OrElse(probe.a.variables, Obj(<<>>)), OrElse(probe.b.variables, Obj(<<>>)))
    /\ MapEq(probe.a.args, probe.b.args)

\* C9: two requests with the same operationName and fieldName whose variables
\* and args are equal as maps derive the same key, whatever the insertion
\* order of their properties at any nesting level.
KeyDeterminism ==
    (/\ derived # <<>>
     /\ probe.a.operationName = probe.b.operationName
     /\ probe.a.fieldName = probe.b.fieldName
     /\ MapEq(probe.a.variables, probe.b.variables)
     /\ MapEq(probe.a.args, probe.b.args))
        => derived[1] = derived[2]

\* variables {args: {a, field}} against {args: {field, a}} and args {a, field}
\* against {field, a}: equal as maps, built in different orders at both levels.
KeyDeterminismExample ==
    /\ derived # <<>>
    /\ probe.a.operationName = Str("Q") /\ probe.b.operationName = Str("Q")
    /\ probe.a.fieldName = Str("f") /\ probe.b.fieldName = Str("f")
    /\ probe.a.variables.t = "obj" /\ Len(probe.a.variables.props) = 1
    /\ probe.a.variables.props[1].name = "args"
    /\ Len(probe.a.variables.props[1].val.props) = 2
    /\ probe.a.variables # probe.b.variables
    /\ MapEq(probe.a.variables, probe.b.variables)
    /\ probe.a.args # probe.b.args
    /\ MapEq(probe.a.args, probe.b.args)
    /\ derived[1] = derived[2]

Returns(ops) == ret'.n # ret.n /\ ret'.op \in ops

\* C11: with a remote tier configured and every remote call so far failed,
\* get, set, delete, clear and invalidateByPattern return without raising, a
\* set has written the in-memory tier and a get answers from the in-memory tier.
FailOpen ==
    [][(/\ config.redis
        /\ redisStatus' # "ready"
        /\ Returns({"get", "set", "delete", "clear", "invalidate"})) =>
        /\ ~ret'.raised
        /\ ret'.op = "set" =>
              /\ CacheIndex(cache', ret'.ckey) > 0
              /\ cache'[CacheIndex(cache', ret'.ckey)].value = ret'.val
        /\ ret'.op = "get" =>
              /\ ret'.src = "memory"
              /\ ret'.ok <=> CacheIndex(cache, ret'.ckey) > 0
              /\ ret'.ok => ret'.val = cache[CacheIndex(cache, ret'.ckey)].value]_vars

\* No remote call has succeeded; a set and then a get of the same request
\* returned, and the get found the value in memory.
FailOpenExample ==
    /\ config.redis /\ redisStatus = "wait"
    /\ SetThenGet
    /\ ret.ok /\ ret.val = prev.val /\ ret.src = "memory" /\ ~ret.raised

SerializationFailure ==
    [][(Returns({"set"}) /\ ret'.val = Circular) =>
        /\ ret'.raised
        /\ UNCHANGED <<cache, accessOrder, stats, memoryUsage, redisStore>>]_vars

\* A set of a key that is stored raised; the stored entry is as it was.
SerializationExample ==
    /\ ret.op = "set" /\ ret.raised /\ ret.val = Circular
    /\ Len(cache) = 1 /\ cache[1].key = ret.ckey /\ cache[1].value = 7
    /\ stats.size = 1

\* The loaders of warmup call n that have not settled.
Loading(pend, n) == {i \in 1..Len(pend) : pend[i].n = n /\ pend[i].cmd = "load"}

\* warmup is called in this step.
WarmupCalled ==
    /\ calls' = calls + 1
    /\ Len(pending') > Len(pending)
    /\ pending'[Len(pending')].cmd = "join"
    /\ pending'[Len(pending')].n = calls'

\* The loader of request r of warmup call n resolves with value v in this step.
LoaderResolves(n, r, v) ==
    /\ \E i \in Loading(pending, n) : pending[i].req = r
    /\ \A i \in Loading(pending', n) : pending'[i].req # r
    /\ [req |-> r, val |-> v] \in pending'[JoinIndex(pending', n)].loaded

\* C15: warmup starts every loader when it is called; it returns without
\* raising, and only when every loader and the set of its value have settled;
\* a loader that resolves has its value handed to set whatever became of
\* its siblings.
WarmupPartialFailure ==
    [][/\ WarmupCalled =>
             Cardinality(Loading(pending', calls')) = pending'[Len(pending')].count
       /\ Returns({"warmup"}) =>
             /\ ~ret'.raised
             /\ \A i \in 1..Len(pending') : pending'[i].n # ret'.n
             /\ Cardinality(ret'.loaded) <= ret'.count
       /\ \A n \in 1..calls, r \in WarmupRequests, v \in Values :
             LoaderResolves(n, r, v) =>
                IF config.redis
                THEN \E i \in 1..Len(pending') :
                        /\ pending'[i].n = n /\ pending'[i].cmd = "setex"
                        /\ pending'[i].req = r /\ pending'[i].entry.value = v
                ELSE /\ CacheIndex(cache', RequestKey[r]) > 0
                     /\ cache'[CacheIndex(cache', RequestKey[r])].value = v]_vars

\* A warmup of two entries returned: one loader rejected, the value of the
\* other is stored.
WarmupExample ==
    /\ ret.op = "warmup" /\ ret.count = 2 /\ ~ret.raised
    /\ Cardinality(ret.loaded) = 1
    /\ pending = <<>>
    /\ Len(cache) = 1
    /\ \E l \in ret.loaded : cache[1].value = l.val /\ cache[1].key = RequestKey[l.req]

\* C16: after warmup returned, get(entry.key) returns the value produced by
\* the loader of that entry, for every entry whose loader resolved with a
\* value that serializes.
WarmupPopulatesPerKey ==
    [][(/\ ret.op = "warmup" /\ ret.n = 1
        /\ Returns({"get"}) /\ ret'.n = 2) =>
        \A l \in ret.loaded :
            (l.req = ret'.req /\ l.val \in Values) => (ret'.ok /\ ret'.val = l.val)]_vars

\* The severity of each of the three checks on the state healthCheck reads:
\* 0 healthy, 1 degraded, 2 unhealthy.
UsageSeverity ==
    IF 10 * stats.size > 9 * config.maxSize THEN 2
    ELSE IF 10 * stats.size > 8 * config.maxSize THEN 1 ELSE 0

HitRateSeverity ==
    IF 10 * stats.hitRate.num < 3 * stats.hitRate.den THEN 2
    ELSE IF 10 * stats.hitRate.num < 5 * stats.hitRate.den THEN 1 ELSE 0

RemoteSeverity == IF config.redis /\ redisStatus # "ready" THEN 2 ELSE 0

StatusOf(severity) ==
    CASE severity = 2 -> "unhealthy" [] severity = 1 -> "degraded" [] OTHER -> "healthy"

Max(x, y) == IF x >= y THEN x ELSE y

\* C17: healthCheck returns the most severe of the usage check, the hit-rate
\* check and the remote check.
HealthSeverity ==
    [][Returns({"health"}) =>
        ret'.status = StatusOf(Max(UsageSeverity, Max(HitRateSeverity, RemoteSeverity)))]_vars

\* C18: with a remote tier configured and not connected healthCheck returns
\* unhealthy, whatever the usage and the hit rate.
RemoteDownUnhealthy ==
    [][(Returns({"health"}) /\ config.redis /\ redisStatus # "ready") =>
        ret'.status = "unhealthy"]_vars

\* The remote tier never connected, usage is 1/2 and the hit rate is 1/2 or
\* more: unhealthy on account of the remote tier alone.
RemoteDownExample ==
    /\ ret.op = "health" /\ ret.status = "unhealthy"
    /\ config.redis /\ redisStatus = "wait"
    /\ UsageSeverity = 0 /\ HitRateSeverity = 0
    /\ stats.size = 1 /\ stats.hits > 0

\* C19: a get that returns has added exactly one to exactly one of hits and
\* misses, whether Redis answered, had nothing, failed, or memory answered,
\* had nothing, or held an expired entry.
GetCountsOnce ==
    [][Returns({"get"}) =>
        \/ stats'.hits = stats.hits + 1 /\ stats'.misses = stats.misses
        \/ stats'.hits = stats.hits /\ stats'.misses = stats.misses + 1]_vars

\* With a remote tier: one get was a hit, and the last get found its entry
\* expired in memory and counted the one miss there is.
GetCountsOnceExample ==
    /\ config.redis
    /\ ret.op = "get" /\ ~ret.ok /\ ret.src = "memory"
    /\ now > MsPerSecond /\ cache = <<>>
    /\ stats.hits = 1 /\ stats.misses = 1

\* C20: hitRate is hits / (hits + misses) for the current counters, and 0
\* when both are 0, in every state getStats can be called in.
HitRateInvariant ==
    /\ getStats.hitRate.den > 0
    /\ IF getStats.hits + getStats.misses > 0
       THEN getStats.hitRate.num * (getStats.hits + getStats.misses)
                = getStats.hits * getStats.hitRate.den
       ELSE getStats.hitRate.num = 0

\* clear returned after a get that was a hit: the counters and the rate are 0.
HitRateExample ==
    /\ prev.op = "get" /\ prev.ok
    /\ ret.op = "clear"
    /\ getStats.hits = 0 /\ getStats.misses = 0 /\ getStats.hitRate.num = 0

\* Call n, a get or a set, has been issued and has not returned.
InFlight(n) ==
    \E i \in 1..Len(pending) : pending[i].n = n /\ pending[i].op \in {"get", "set"}

\* C21: every get and every set returns to its caller, also when the remote
\* tier stops answering.
BoundedRemoteCalls == \A n \in 1..MaxBoundedCalls : InFlight(n) ~> ~InFlight(n)

\* A subscription has not received something that was created for its user
\* while it was open.
Undelivered ==
    \E i \in 1..Len(subscriptions) :
        \E rec \in subscriptions[i].owed :
            \A k \in 1..Len(subscriptions[i].received) : subscriptions[i].received[k] # rec

\* C22: what createPayment (createAlert) created for user u reaches every
\* paymentUpdated (alertTriggered) subscription open for u as its resolved
\* payload, and no subscription receives what belongs to another user.
RealTimeDelivery ==
    /\ [](\A i \in 1..Len(subscriptions) :
            \A k \in 1..Len(subscriptions[i].received) :
                subscriptions[i].received[k].owner \in {"", subscriptions[i].userId})
    /\ Undelivered ~> ~Undelivered

\* The user a reply was made for.
Caller == getUserFromContext(reply.ctx, stores)

\* A record belongs to a user other than u.
OfAnotherUser(rec, u) ==
    IF rec.kind = "user" THEN rec.id # u.id ELSE rec.owner \notin {"", u.id}

RecencyListInvariant ==
    (config.strategy = "lru" /\ ~Busy(pending)) =>
        /\ {accessOrder[i] : i \in 1..Len(accessOrder)} = {cache[i].key : i \in 1..Len(cache)}
        /\ \A i, j \in 1..Len(accessOrder) : accessOrder[i] = accessOrder[j] => i = j

CacheKeySet(c) == {c[i].key : i \in 1..Len(c)}

\* The keys a returning set removed from the in-memory store.
RemovedBySet == (CacheKeySet(cache) \cup {ret'.ckey}) \ CacheKeySet(cache')

\* C25: a set adds to stats.evictions the number of entries it removed from
\* the in-memory store, at most one; clear resets the counter; no other call
\* changes it.
EvictionCounterAccuracy ==
    [][IF Returns({"clear"}) THEN stats'.evictions = 0
       ELSE IF Returns({"set"})
       THEN /\ stats'.evictions = stats.evictions + Cardinality(RemovedBySet)
            /\ Cardinality(RemovedBySet) <= 1
       ELSE stats'.evictions = stats.evictions]_vars

RECURSIVE SumOfSizes(_)
SumOfSizes(c) == IF c = <<>> THEN 0 ELSE c[1].size + SumOfSizes(Tail(c))

\* C26: when a get, set, delete or clear has returned and no call is in
\* flight, the memoryUsage getStats reports is the sum of the sizes of the
\* entries in the in-memory store.
MemoryAccounting ==
    (ret.op \in {"get", "set", "delete", "clear"} /\ pending = <<>>) =>
        getStats.memoryUsage = SumOfSizes(cache)

\* A get returns in this step from the memory tier, where it found an expired
\* entry under its key.
GetFindsExpired ==
    /\ Returns({"get"})
    /\ ret'.src = "memory"
    /\ CacheIndex(cache, ret'.ckey) > 0
    /\ isExpired(cache[CacheIndex(cache, ret'.ckey)], now)

\* C27: a get that finds an expired entry in the in-memory store returns
\* absent, removes the entry from the store and from accessOrder, adds one to
\* misses and leaves evictions as they were.
ExpiredGet ==
    [][GetFindsExpired =>
        /\ ~ret'.ok /\ ret'.val = Null
        /\ CacheIndex(cache', ret'.ckey) = 0
        /\ IndexOf(accessOrder', ret'.ckey) = 0
        /\ stats'.misses = stats.misses + 1
        /\ stats'.hits = stats.hits
        /\ stats'.evictions = stats.evictions]_vars

\* No remote tier: a set, then past its ttl a get, which missed and left the
\* store and accessOrder empty.
ExpiredGetExample ==
    /\ ~config.redis /\ now > MsPerSecond
    /\ ret.op = "get" /\ ret.n = 2 /\ ~ret.ok /\ ret.val = Null
    /\ stats.misses = 1 /\ stats.hits = 0 /\ stats.evictions = 0
    /\ cache = <<>> /\ accessOrder = <<>>
    /\ stats.size = 1

\* C28: an expired entry leaves the in-memory store only by a get or a delete
\* of its key or as the victim of a set; set, delete of another key, getStats
\* and healthCheck leave it in place, and it counts in the size getStats
\* reports and in the capacity check of a set.
LazyExpiry ==
    [][/\ \A i \in 1..Len(cache) :
             (isExpired(cache[i], now) /\ CacheIndex(cache', cache[i].key) = 0) =>
                 \/ Returns({"get", "delete"}) /\ ret'.ckey = cache[i].key
                 \/ Returns({"set"}) /\ ret'.evicted /\ ret'.victim = cache[i].key
       /\ Returns({"stats"}) => ret'.count = Len(cache)
       /\ (Returns({"set"}) /\ Len(cache) = config.maxSize
               /\ CacheIndex(cache, ret'.ckey) = 0) =>
             /\ ret'.evicted
             /\ ret'.victim = keyToEvict(setInsert(Mem, cache'[Len(cache')], config), config)]_vars

\* lru, maxSize 2: a was set before b and is live, b is expired; the set of c
\* evicted a and left b in the store.
LazyExpiryExample ==
    /\ config.strategy = "lru"
    /\ ret.op = "set" /\ ret.req = "c" /\ ret.n = 3 /\ ret.evicted
    /\ ret.victim = RequestKey["a"] /\ ~ret.victimExpired
    /\ ret.t = now /\ now = 2 * MsPerSecond
    /\ Len(cache) = 2
    /\ cache[1].key = RequestKey["b"] /\ cache[1].timestamp = 0 /\ isExpired(cache[1], now)
    /\ getStats.size = 2

\* C29: a get that the remote tier answers with a value (src = "redis": the
\* reply of redis.get settled the call) returns that value and adds one to
\* hits; the in-memory store with the hit counts of its entries,
\* accessOrder, misses and evictions stay as they were.
RemoteHitBypassesMemory ==
    [][(/\ Settling("get")
        /\ Returns({"get"})
        /\ ret'.src = "redis") =>
        /\ RedisLive(redisStore, ret'.ckey, now)
        /\ ret'.ok
        /\ ret'.val = (CHOOSE e \in redisStore : e.key = ret'.ckey).value
        /\ stats'.hits = stats.hits + 1
        /\ stats'.misses = stats.misses
        /\ stats'.evictions = stats.evictions
        /\ cache' = cache
        /\ accessOrder' = accessOrder]_vars

\* set then get of a request, both answered by Redis: the get returned the
\* value and counted a hit while the entry in memory still has no hit.
RemoteHitExample ==
    /\ config.redis /\ redisStatus = "ready"
    /\ ret.op = "get" /\ ret.n = 2 /\ ret.ok /\ ret.src = "redis" /\ ret.val # Null
    /\ CacheIndex(cache, ret.ckey) > 0
    /\ cache[CacheIndex(cache, ret.ckey)].hits = 0
    /\ cache[CacheIndex(cache, ret.ckey)].value = ret.val
    /\ stats.hits = 1 /\ stats.misses = 0

\* C30: a set that evicts for capacity removes the victim from the in-memory
\* store, and neither that set nor the delete it started changes the copy of
\* the victim held by Redis.
EvictionLeavesRemote ==
    [][/\ (Returns({"set"}) /\ ret'.evicted) =>
             /\ CacheIndex(cache', ret'.victim) = 0
             /\ \A e \in redisStore : e.key = ret'.victim => e \in redisStore'
       /\ (/\ NextToSettle(pending) > 0
           /\ SettlingItem.op = "evict"
           /\ pending' = RemoveAt(pending, NextToSettle(pending))) =>
             \A e \in redisStore : e.key = SettlingItem.ckey => e \in redisStore']_vars

\* C31: with maxSize 0, or with an empty store when the eviction step of a set
\* runs, the step removes no entry, leaves evictions as it was and raises
\* nothing: the entries held before the set and the one it wrote are all there
\* when it returns.
EvictionNoOp ==
    [][(/\ Returns({"set"})
        /\ config.maxSize = 0 \/ cache = <<>>) =>
        /\ ~ret'.raised
        /\ ~ret'.evicted
        /\ stats'.evictions = stats.evictions
        /\ CacheIndex(cache', ret'.ckey) > 0
        /\ \A i \in 1..Len(cache) : CacheIndex(cache', cache[i].key) > 0]_vars

\* C32: the count invalidateByPattern returns is the number of distinct keys
\* the call removed from the tiers, a key held in both counted once, whichever
\* of its Redis commands failed; every removed key contains the pattern.
InvalidateCount ==
    [][Returns({"invalidate"}) =>
        /\ ret'.count = Cardinality(ret'.removed)
        /\ \A k \in ret'.removed : Includes(k, ret'.pat)]_vars

\* C33: the size getStats returns and the size healthCheck reports (and
\* divides by maxSize for the usage) are the number of entries the in-memory
\* store holds at that moment.
StatsSizeFresh ==
    [][Returns({"stats", "health"}) => ret'.count = Len(cache')]_vars

\* A step in which clear() is called.
ClearCalled ==
    /\ calls' = calls + 1
    /\ \/ Returns({"clear"})
       \/ /\ Len(pending') > 0
          /\ pending'[Len(pending')].op = "clear"
          /\ pending'[Len(pending')].n = calls'

\* C34: hits, misses and evictions decrease in no step but a call of clear;
\* when a clear returns that no other call overlapped, the six statistics are
\* 0 and the in-memory store and accessOrder are empty.
CountersMonotonic ==
    [][/\ (\/ stats'.hits < stats.hits
           \/ stats'.misses < stats.misses
           \/ stats'.evictions < stats.evictions) => ClearCalled
       /\ (Returns({"clear"}) /\ ret'.solo) =>
             /\ stats'.hits = 0 /\ stats'.misses = 0 /\ stats'.evictions = 0
             /\ stats'.size = 0 /\ stats'.memoryUsage = 0 /\ stats'.hitRate.num = 0
             /\ memoryUsage' = 0
             /\ cache' = <<>> /\ accessOrder' = <<>>]_vars

\* C34 as stated, for every clear: also when a call overlaps the clear, the six
\* statistics are 0 and the store and accessOrder are empty when it returns.
CountersAfterAnyClear ==
    [][/\ (\/ stats'.hits < stats.hits
           \/ stats'.misses < stats.misses
           \/ stats'.evictions < stats.evictions) => ClearCalled
       /\ Returns({"clear"}) =>
             /\ stats'.hits = 0 /\ stats'.misses = 0 /\ stats'.evictions = 0
             /\ stats'.size = 0 /\ stats'.memoryUsage = 0 /\ stats'.hitRate.num = 0
             /\ memoryUsage' = 0
             /\ cache' = <<>> /\ accessOrder' = <<>>]_vars

\* With Redis, maxSize 1: the second of two sets evicted, then clear ran alone
\* and returned with everything at 0.
ClearExample ==
    /\ config.redis
    /\ prev.op = "set" /\ prev.evicted /\ prev.n = 2
    /\ ret.op = "clear" /\ ret.solo /\ ret.n = 3
    /\ stats = ZeroStats /\ memoryUsage = 0
    /\ cache = <<>> /\ accessOrder = <<>>

\* C35: with maxSize >= 1, under every strategy, the entry a set wrote is in
\* the in-memory store when the set returns: the victim of the set's eviction
\* is not the key it wrote.
SetKeepsOwnEntry ==
    [][(Returns({"set"}) /\ config.maxSize >= 1) =>
        /\ CacheIndex(cache', ret'.ckey) > 0
        /\ ret'.evicted => ret'.victim # ret'.ckey]_vars

\* C36: a call of the wrapped method returns the result of the method for the
\* arguments of that call, computed by the call or taken from the cache; never
\* the result computed for other arguments.
CachedForSameArguments ==
    [][Returns({"cached"}) => ret'.val = originalMethod(ret'.req)]_vars

\* A call of startAutomatedStrategy or stopAutomatedStrategy returns or throws.
StrategyReturns(op) ==
    /\ automatedStrategy'.outcome.n # automatedStrategy.outcome.n
    /\ automatedStrategy'.outcome.op = op

\* C37: when startAutomatedStrategy fails in its initial deployment the
\* strategy is not running and holds no execution timer, and a start is
\* rejected as already running only while a start is under way or the
\* strategy was started and not stopped.
FailedStartLeavesStopped ==
    [][/\ (/\ StrategyReturns("start")
           /\ automatedStrategy'.outcome.res = "No suitable strategies found") =>
             /\ ~automatedStrategy'.isRunning
             /\ automatedStrategy'.executionInterval = NoTimer
       /\ (/\ StrategyReturns("start")
           /\ automatedStrategy'.outcome.res = "Strategy is already running") =>
             \/ automatedStrategy.deploying > 0
             \/ automatedStrategy.executionInterval # NoTimer]_vars

\* C38: at most one timer of each kind is live at any time, and when
\* stopAutomatedStrategy returns no timer is live.
StopClearsTimers ==
    /\ [](\A k \in TimerKinds :
             Cardinality({t \in automatedStrategy.timers : t.kind = k}) <= 1)
    /\ [][StrategyReturns("stop") => automatedStrategy'.timers = {}]_vars

====
